---------------------------- MODULE Spec2Model ----------------------------
(***************************************************************************)
(* A model of src/src/functions/textToSpeech.js: the rate-limited batch    *)
(* scheduler processChunksWithRateLimit (specification Spec), the text     *)
(* chunker intelligentTextChunking with its word-boundary fallback         *)
(* (specification ChunkSpec), the HTTP handler textToSpeech                *)
(* (specification HandlerSpec) and the invocations of initializeClient in  *)
(* one process (specification ClientSpec).  LiveSpec is the scheduler      *)
(* with time running on beyond the clock's range and with fairness.        *)
(* SynthSpec is one job's retry loop around synthesizeChunk, SplitSpec the *)
(* loop of splitLongTextAtWordBoundaries iteration by iteration, and       *)
(* RouteSpec the front end's API route POST of src/unnamed/part_001.       *)
(*                                                                         *)
(* Time is kept in milliseconds and advances in steps of TickMs.  A timer  *)
(* set with setTimeout(d) fires at the first tick at or after its          *)
(* deadline; a synthesis call may take any time to return.                 *)
(***************************************************************************)
EXTENDS Integers, Sequences, FiniteSets, TLC

VARIABLES
    \* ---- processChunksWithRateLimit ----
    pc,             \* position of the async function: init, await, cooldown, returned,
                    \* thrown (idle in the chunker's runs)
    opts,           \* the options object (maxConcurrent, maxRequestsPerMinute, maxRetries)
    n,              \* chunks.length
    batchStart,     \* the batch loop's variable
    task,           \* per chunk: the state of its promise executor
    settled,        \* chunk indices of the current batch in the order their promises resolved
    results,        \* the results array
    failedChunks,   \* the failedChunks array
    processedCount, \* the processedCount counter
    mainWake,       \* deadline of the cooldown timer
    now,            \* the clock, in ms
    \* ---- observations of the run (history) ----
    script,         \* per chunk: the provider outcomes of its calls so far
    writes,         \* per chunk: the number of assignments to its result slot
    reports,        \* the objects the progress callback was called with, in order
    thrown,         \* the error the function threw, if it did
    \* ---- intelligentTextChunking ----
    cpc,            \* position of the chunker: input, done (idle in the scheduler's runs)
    text,           \* the text argument
    textType,       \* typeof the text argument (a value that is no string has no characters)
    maxLength,      \* the maxLength argument
    sentences,      \* what extractSentencesWithNLP returned (<<>> if not called)
    segmented,      \* whether extractSentencesWithNLP was called
    chunks,         \* the returned array
    remainingText,  \* splitLongTextAtWordBoundaries' variable remainingText, in the runs of its loop
    \* ---- the textToSpeech handler ----
    hpc,            \* position of the handler: request, sequential, calling, batch, assemble,
                    \* responded (idle in the other runs)
    ttsClient,      \* the module's ttsClient variable: unset, or the client
    credentialsJson,\* process.env.GOOGLE_APPLICATION_CREDENTIALS_JSON: missing, malformed, valid
    requestBody,    \* the request body
    hnext,          \* the index of the next chunk to synthesize
    audioChunks,    \* the audioChunks array
    response,       \* the returned response
    \* ---- the invocations of initializeClient in one process ----
    caller,         \* per invocation: how far it is, and what initializeClient gave it
    constructed,    \* the number of TextToSpeechClient objects constructed so far
    attempts,       \* the number of times the construction was attempted
    \* ---- one job's retry loop around synthesizeChunk ----
    jpc,            \* position of the job: call, backoff, resolved (idle in the other runs)
    jobMaxRetries,  \* options.maxRetries
    jobAttempt,     \* the retry loop's variable attempt
    providerError,  \* what client.synthesizeSpeech rejected the last call with, if it did
    lastError,      \* the retry loop's variable lastError
    \* ---- the front end's API route POST ----
    rpc,            \* position of the route: request, fetching, responded (idle in the other runs)
    session,        \* what getServerSession resolves to
    routeRequest,   \* the request body the client sent
    env,            \* process.env: NEXT_PUBLIC_API_URL and AZURE_FUNCTION_KEY
    bodyRead,       \* whether request.json() was called
    fetched,        \* the requests sent to the Azure Function, in order
    routeResponse   \* the response sent to the client

schedVars == <<pc, opts, n, batchStart, task, settled, results, failedChunks,
               processedCount, mainWake, now, script, writes, reports, thrown>>
chunkVars == <<cpc, text, textType, maxLength, sentences, segmented, chunks, remainingText>>
handlerVars == <<hpc, ttsClient, credentialsJson, requestBody, hnext, audioChunks, response>>
clientVars == <<caller, constructed, attempts>>
synthVars == <<jpc, jobMaxRetries, jobAttempt, providerError, lastError>>
routeVars == <<rpc, session, routeRequest, env, bodyRead, fetched, routeResponse>>
vars == <<schedVars, chunkVars, handlerVars, clientVars, synthVars, routeVars>>

Min(a, b) == IF a <= b THEN a ELSE b
Max(a, b) == IF a >= b THEN a ELSE b

RECURSIVE Pow2(_)
Pow2(k) == IF k = 0 THEN 1 ELSE 2 * Pow2(k - 1)

(***************************************************************************)
(* Bounds of the model.                                                    *)
(***************************************************************************)
MaxChunks == 3          \* small chunk lists have 0..MaxChunks chunks
LargeChunks == 10       \* the large chunk list, where a failure can be tolerated
MaxTicks == 5           \* the clock stops after MaxTicks ticks
MaxFaults == 3          \* the provider fails at most MaxFaults calls of a run
MaxLargeFaults == 4     \* and at most MaxLargeFaults calls of a run over the large list
MaxCalls == 3           \* the invocations of the handler in one process

(***************************************************************************)
(* Program constants.                                                      *)
(***************************************************************************)
MinuteMs == 60000
MinRequestDelayMs == 100
FailurePercent == 10                \* the 0.1 of line 389, as a percentage

TickMs == MinuteMs \div 2
initialRetryDelay == TickMs         \* options.initialRetryDelay
\* The options objects of the runs: every mix of concurrency cap, quota and
\* retry count for the small lists, a sequential plan for the large one.
SmallOptions == [maxConcurrent : {1, 2}, maxRequestsPerMinute : {1, 2, 3}, maxRetries : {0, 2}]
LargeOptions == [maxConcurrent : {1}, maxRequestsPerMinute : {2}, maxRetries : {0}]

Chunks == 0 .. (n - 1)

\* Values of a result slot: a hole of new Array(n), the empty buffer, or audio.
Undefined == <<-1>>
EmptyBuffer == <<>>
\* The audio the provider returns for chunk c on its k-th call (k = 0, 1, ...).
Audio(c, k) == <<c, k>>

\* What the provider does with a call: answer, or fail with gRPC code 8
\* (RESOURCE_EXHAUSTED), or fail with some other error.
ProviderOutcomes == {"ok", "code8", "internal"}

\* synthesizeChunk's catch block: is the error rethrown as a RateLimitError?
isRateLimit(outcome) == outcome = "code8"

\* (a slip: the larger of the two caps)
batchSizeLarger == Max(opts.maxConcurrent, opts.maxRequestsPerMinute)
batchSize == Min(opts.maxConcurrent, opts.maxRequestsPerMinute)
\* (a slip: a cooldown between any two batches)
batchDelayMsAlways == MinuteMs
\* Line 261: batchSize >= maxRequestsPerMinute ? 60000 : 0
batchDelayMs == IF batchSize >= opts.maxRequestsPerMinute THEN MinuteMs ELSE 0
\* Math.max(100, (60000 / maxRequestsPerMinute) * 1.1), to the millisecond
requestDelayMs == Max(MinRequestDelayMs, (MinuteMs * 11) \div (opts.maxRequestsPerMinute * 10))
\* (a slip: the same delay before every retry)
retryDelayConstant(attempt) == initialRetryDelay
\* initialRetryDelay * Math.pow(2, attempt)
retryDelay(attempt) == initialRetryDelay * Pow2(attempt)

\* (a slip: the slice takes in the first chunk of the next batch)
BatchOverlapping(b) == {c \in Chunks : b <= c /\ c <= b + batchSize}
\* chunks.slice(b, b + batchSize), as chunk indices
Batch(b) == {c \in Chunks : b <= c /\ c < b + batchSize}

\* A task: the promise executor of one chunk.  st is its position, attempt the
\* retry loop's variable, since/wakeAt the start and deadline of its pending
\* timer, success/value what its promise resolved with.
Idle == [st |-> "none", attempt |-> 0, since |-> 0, wakeAt |-> 0,
         success |-> FALSE, value |-> Undefined]

InFlight == {c \in Chunks : task[c].st = "inflight"}

\* The number of provider failures so far.
RECURSIVE CountFaults(_)
CountFaults(S) ==
    IF S = {} THEN 0
    ELSE LET c == CHOOSE x \in S : TRUE
         IN  Cardinality({k \in DOMAIN script[c] : script[c][k] # "ok"}) + CountFaults(S \ {c})

\* The number of synthesis calls started so far.
RECURSIVE CountCalls(_)
CountCalls(S) ==
    IF S = {} THEN 0
    ELSE LET c == CHOOSE x \in S : TRUE
         IN  Len(script[c]) + (IF task[c].st = "inflight" THEN 1 ELSE 0) + CountCalls(S \ {c})

\* (a slip: no slot sleeps before its first call)
LaunchedTaskWithoutStagger(b, c) == [Idle EXCEPT !.st = "inflight"]

\* The batch loop's body up to Promise.all: one promise per chunk of the batch.
\* The executor of slot 0 runs synchronously into its first synthesis call; the
\* others sleep i * requestDelayMs first.
LaunchedTask(b, c) ==
    LET delay == (c - b) * requestDelayMs
    IN  IF delay > 0
        THEN [Idle EXCEPT !.st = "stagger", !.since = now, !.wakeAt = now + delay]
        ELSE [Idle EXCEPT !.st = "inflight"]

Launch(b) ==
    /\ task' = [c \in Chunks |-> IF c \in Batch(b) THEN LaunchedTask(b, c) ELSE task[c]]
    /\ batchStart' = b
    /\ settled' = <<>>
    /\ pc' = "await"

\* (a slip: >= for >)
TooManyFailedInclusive(failed) == failed * 100 >= n * FailurePercent
\* Line 389: failedChunks.length > chunks.length * 0.1
TooManyFailed(failed) == failed * 100 > n * FailurePercent

\* (a slip: the missing slots are left as they are)
FinishWithoutFill(res, failed, wr) ==
    /\ pc' = IF Len(failed) > 0 /\ TooManyFailed(Len(failed)) THEN "thrown" ELSE "returned"
    /\ results' = res
    /\ writes' = wr

\* Lines 374-401: the failure threshold, then the fill of the missing slots.
Finish(res, failed, wr) ==
    IF Len(failed) > 0 /\ TooManyFailed(Len(failed))
    THEN /\ pc' = "thrown"
         /\ results' = res
         /\ writes' = wr
    ELSE /\ pc' = "returned"
         /\ results' = [c \in Chunks |-> IF res[c] = Undefined THEN EmptyBuffer ELSE res[c]]
         /\ writes' = [c \in Chunks |-> IF res[c] = Undefined THEN wr[c] + 1 ELSE wr[c]]

\* Math.ceil(a / b) for a >= 0
CeilDiv(a, b) == (a + b - 1) \div b

\* The progress reports.  A status is kept as its fixed words and its numbers.
\* Lines 269-275.
InitialReport ==
    [processed |-> 0,
     total |-> n,
     status |-> [msg |-> "Starting batch processing..."],
     estimatedTimeMinutes |-> CeilDiv(n, opts.maxRequestsPerMinute)]

\* (a slip: the chunks launched so far are reported as processed)
BatchReportCountingLaunched(cnt, failed) ==
    LET left == n - batchStart - batchSize
        remainingBatches == IF left > 0 THEN CeilDiv(left, batchSize) ELSE 0
    IN  [processed |-> batchStart + batchSize,
         total |-> n,
         failed |-> Len(failed),
         status |-> [msg |-> "Processed batch", batch |-> (batchStart \div batchSize) + 1,
                     of |-> CeilDiv(n, batchSize)],
         estimatedRemainingMinutes |->
             CeilDiv(remainingBatches * (batchDelayMs + batchSize * requestDelayMs), MinuteMs)]

\* Lines 346-356.
BatchReport(cnt, failed) ==
    LET left == n - batchStart - batchSize
        remainingBatches == IF left > 0 THEN CeilDiv(left, batchSize) ELSE 0
    IN  [processed |-> cnt,
         total |-> n,
         failed |-> Len(failed),
         status |-> [msg |-> "Processed batch", batch |-> (batchStart \div batchSize) + 1,
                     of |-> CeilDiv(n, batchSize)],
         estimatedRemainingMinutes |->
             CeilDiv(remainingBatches * (batchDelayMs + batchSize * requestDelayMs), MinuteMs)]

\* Lines 361-369.
CooldownReport(cnt, failed) ==
    [processed |-> cnt,
     total |-> n,
     failed |-> Len(failed),
     status |-> [msg |-> "Rate limit cooldown", ms |-> batchDelayMs],
     estimatedRemainingMinutes |-> CeilDiv(batchDelayMs, MinuteMs)]

\* Lines 375-385.
FailureReport(cnt, failed) ==
    [processed |-> cnt,
     total |-> n,
     failed |-> Len(failed),
     status |-> [msg |-> "Failed to process", count |-> Len(failed), of |-> n],
     failedChunks |-> failed]

\* The function has not thrown.
NotThrown == [msg |-> "none"]

QuotedErrors == 3       \* failedChunks.slice(0, 3)

\* (a slip: the errors of all the failed chunks are quoted)
AggregatedErrorQuotingAll(failed) ==
    [msg |-> "Failed to process",
     count |-> Len(failed),
     of |-> n,
     errors |-> [k \in 1 .. Len(failed) |-> failed[k].error],
     ellipsis |-> Len(failed) > QuotedErrors]

\* Lines 376 and 390: the message of the error thrown over the threshold,
\* `Failed to process ${count}/${of} chunks. Errors: ${errors.join(', ')}` with
\* '...' after it when more chunks failed than are quoted.
AggregatedError(failed) ==
    [msg |-> "Failed to process",
     count |-> Len(failed),
     of |-> n,
     errors |-> [k \in 1 .. Min(QuotedErrors, Len(failed)) |-> failed[k].error],
     ellipsis |-> Len(failed) > QuotedErrors]

\* (a slip: no report when a cooldown is entered)
ReportsAfterBatchWithoutCooldown(cnt, failed, more) ==
    <<BatchReport(cnt, failed)>>
        \o (IF ~more /\ Len(failed) > 0 THEN <<FailureReport(cnt, failed)>> ELSE <<>>)
\* The calls of progressCallback between Promise.all and the next await or the
\* end (lines 345-386); more tells whether a batch is left.
ReportsAfterBatch(cnt, failed, more) ==
    <<BatchReport(cnt, failed)>>
        \o (IF more /\ batchDelayMs > 0 THEN <<CooldownReport(cnt, failed)>> ELSE <<>>)
        \o (IF ~more /\ Len(failed) > 0 THEN <<FailureReport(cnt, failed)>> ELSE <<>>)

\* The call processChunksWithRateLimit(client, chunks, options, progressCallback)
\* up to its first await.
Start ==
    /\ pc = "init"
    /\ reports' = <<InitialReport>>
    /\ thrown' = NotThrown
    /\ IF n > 0
       THEN /\ Launch(0)
            /\ UNCHANGED <<results, writes>>
       ELSE /\ Finish(results, failedChunks, writes)
            /\ UNCHANGED <<task, batchStart, settled>>
    /\ UNCHANGED <<opts, n, failedChunks, processedCount, mainWake, now, script>>
    /\ UNCHANGED <<chunkVars, handlerVars, clientVars, synthVars, routeVars>>

\* The stagger timer of a task fires: its first synthesis call starts.
StaggerFire(c) ==
    /\ task[c].st = "stagger"
    /\ now >= task[c].wakeAt
    /\ task' = [task EXCEPT ![c].st = "inflight", ![c].since = 0, ![c].wakeAt = 0]
    /\ UNCHANGED <<pc, opts, n, batchStart, settled, results, failedChunks,
                   processedCount, mainWake, now, script, writes, reports, thrown>>
    /\ UNCHANGED <<chunkVars, handlerVars, clientVars, synthVars, routeVars>>

\* (a slip: every error is retried, not only a rate-limit error)
AfterCallRetryingAll(t, outcome, audio) ==
    IF outcome = "ok"
    THEN [t EXCEPT !.st = "resolved", !.success = TRUE, !.value = audio]
    ELSE IF t.attempt < opts.maxRetries
    THEN [t EXCEPT !.st = "backoff", !.since = now, !.wakeAt = now + retryDelay(t.attempt)]
    ELSE [t EXCEPT !.st = "resolved", !.success = FALSE]

\* (a slip: <= for <, one retry too many)
AfterCallRetryingOnceMore(t, outcome, audio) ==
    IF outcome = "ok"
    THEN [t EXCEPT !.st = "resolved", !.success = TRUE, !.value = audio]
    ELSE IF isRateLimit(outcome) /\ t.attempt <= opts.maxRetries
    THEN [t EXCEPT !.st = "backoff", !.since = now, !.wakeAt = now + retryDelay(t.attempt)]
    ELSE [t EXCEPT !.st = "resolved", !.success = FALSE]

\* (a slip: a chunk that was rate-limited stays failed when a retry succeeds)
AfterCallKeepingFirstError(t, outcome, audio) ==
    IF outcome = "ok"
    THEN [t EXCEPT !.st = "resolved", !.success = (t.attempt = 0), !.value = audio]
    ELSE IF isRateLimit(outcome) /\ t.attempt < opts.maxRetries
    THEN [t EXCEPT !.st = "backoff", !.since = now, !.wakeAt = now + retryDelay(t.attempt)]
    ELSE [t EXCEPT !.st = "resolved", !.success = FALSE]

\* (a slip: the promise of a chunk that failed is never resolved)
AfterCallNeverResolvingFailure(t, outcome, audio) ==
    IF outcome = "ok"
    THEN [t EXCEPT !.st = "resolved", !.success = TRUE, !.value = audio]
    ELSE IF isRateLimit(outcome) /\ t.attempt < opts.maxRetries
    THEN [t EXCEPT !.st = "backoff", !.since = now, !.wakeAt = now + retryDelay(t.attempt)]
    ELSE [t EXCEPT !.st = "pending", !.success = FALSE]

\* The retry loop's reaction to the outcome of a call of task t (lines 299-322).
AfterCall(t, outcome, audio) ==
    IF outcome = "ok"
    THEN [t EXCEPT !.st = "resolved", !.success = TRUE, !.value = audio]
    ELSE IF isRateLimit(outcome) /\ t.attempt < opts.maxRetries
    THEN [t EXCEPT !.st = "backoff", !.since = now, !.wakeAt = now + retryDelay(t.attempt)]
    ELSE [t EXCEPT !.st = "resolved", !.success = FALSE]

\* A synthesis call returns or throws.
CallReturn(c, outcome) ==
    /\ task[c].st = "inflight"
    /\ outcome # "ok" =>
          CountFaults(Chunks) < (IF n = LargeChunks THEN MaxLargeFaults ELSE MaxFaults)
    /\ task' = [task EXCEPT ![c] = AfterCall(task[c], outcome, Audio(c, Len(script[c])))]
    /\ script' = [script EXCEPT ![c] = Append(@, outcome)]
    /\ settled' = IF task'[c].st = "resolved" THEN Append(settled, c) ELSE settled
    /\ UNCHANGED <<pc, opts, n, batchStart, results, failedChunks, processedCount,
                   mainWake, now, writes, reports, thrown>>
    /\ UNCHANGED <<chunkVars, handlerVars, clientVars, synthVars, routeVars>>

\* The backoff timer of a task fires: the loop continues with attempt + 1.
BackoffFire(c) ==
    /\ task[c].st = "backoff"
    /\ now >= task[c].wakeAt
    /\ task' = [task EXCEPT ![c].st = "inflight", ![c].attempt = @ + 1,
                            ![c].since = 0, ![c].wakeAt = 0]
    /\ UNCHANGED <<pc, opts, n, batchStart, settled, results, failedChunks,
                   processedCount, mainWake, now, script, writes, reports, thrown>>
    /\ UNCHANGED <<chunkVars, handlerVars, clientVars, synthVars, routeVars>>

\* Promise.all's value: the batch's results in slot order, whatever the order
\* the promises resolved in.
batchResults == [i \in 1 .. Cardinality(Batch(batchStart)) |-> batchStart + i - 1]

\* The place of chunk c of the current batch in the order of completion.
CompletionRank(c) == batchStart + (CHOOSE i \in DOMAIN settled : settled[i] = c) - 1

\* (a slip: results are stored in the order the tasks completed)
ResultSlotByCompletion(c, rank) == rank
\* The slot a result is stored in, results[result.index] (line 334): the chunk's
\* own index, whatever the rank of its task in the order of completion.
ResultSlot(c, rank) == c

\* Lines 332-343 over the results rs (chunk indices), from position k on.
RECURSIVE ProcessResults(_, _, _, _, _, _)
ProcessResults(rs, k, res, cnt, failed, wr) ==
    IF k > Len(rs)
    THEN [results |-> res, processedCount |-> cnt, failedChunks |-> failed, writes |-> wr]
    ELSE LET c == rs[k]
             slot == ResultSlot(c, CompletionRank(c))
         IN  IF task[c].success
             THEN ProcessResults(rs, k + 1, [res EXCEPT ![slot] = task[c].value], cnt + 1,
                                 failed, [wr EXCEPT ![slot] = @ + 1])
             ELSE ProcessResults(rs, k + 1, res, cnt,
                                 Append(failed, [index |-> c,
                                                 error |-> script[c][Len(script[c])]]), wr)

\* Line 329: await Promise.all(batchPromises) is over once every promise of the
\* batch has resolved.
BatchSettled == \A c \in Batch(batchStart) : task[c].st = "resolved"

\* Promise.all resolves: the batch's results are recorded, then the function
\* sleeps the cooldown, launches the next batch, or finishes.
BatchDone ==
    /\ pc = "await"
    /\ BatchSettled
    /\ LET p == ProcessResults(batchResults, 1, results, processedCount, failedChunks, writes)
           more == batchStart + batchSize < n
       IN  /\ processedCount' = p.processedCount
           /\ failedChunks' = p.failedChunks
           /\ reports' = reports \o ReportsAfterBatch(p.processedCount, p.failedChunks, more)
           /\ thrown' = IF ~more /\ Len(p.failedChunks) > 0 /\ TooManyFailed(Len(p.failedChunks))
                        THEN AggregatedError(p.failedChunks) ELSE thrown
           /\ IF more /\ batchDelayMs > 0
              THEN /\ pc' = "cooldown"
                   /\ mainWake' = now + batchDelayMs
                   /\ results' = p.results
                   /\ writes' = p.writes
                   /\ UNCHANGED <<task, batchStart, settled>>
              ELSE IF more
              THEN /\ Launch(batchStart + batchSize)
                   /\ results' = p.results
                   /\ writes' = p.writes
                   /\ UNCHANGED mainWake
              ELSE /\ Finish(p.results, p.failedChunks, p.writes)
                   /\ UNCHANGED <<task, batchStart, settled, mainWake>>
    /\ UNCHANGED <<opts, n, now, script>>
    /\ UNCHANGED <<chunkVars, handlerVars, clientVars, synthVars, routeVars>>

\* The cooldown timer fires: the loop goes on to the next batch.
CooldownFire ==
    /\ pc = "cooldown"
    /\ now >= mainWake
    /\ Launch(batchStart + batchSize)
    /\ mainWake' = 0
    /\ UNCHANGED <<opts, n, results, failedChunks, processedCount, now, script, writes, reports, thrown>>
    /\ UNCHANGED <<chunkVars, handlerVars, clientVars, synthVars, routeVars>>

\* A timer that is due: the event loop is idle whenever the function is
\* suspended, so a due timer fires before the clock's next tick.
TimerDue ==
    \/ pc = "cooldown" /\ now >= mainWake
    \/ \E c \in Chunks : task[c].st \in {"stagger", "backoff"} /\ now >= task[c].wakeAt

\* Time passes while the function is suspended.
Tick ==
    /\ pc \in {"await", "cooldown"}
    /\ ~TimerDue
    /\ now < MaxTicks * TickMs
    /\ now' = now + TickMs
    /\ UNCHANGED <<pc, opts, n, batchStart, task, settled, results, failedChunks,
                   processedCount, mainWake, script, writes, reports, thrown>>
    /\ UNCHANGED <<chunkVars, handlerVars, clientVars, synthVars, routeVars>>

(***************************************************************************)
(* intelligentTextChunking.  A string is a sequence of characters.         *)
(***************************************************************************)
MaxTextLen == 5         \* input texts have 0..MaxTextLen characters
MaxMaxLength == 3       \* the maxLength argument ranges over 1..MaxMaxLength

SP == " "
LF == "\n"
CR == "\r"
Alphabet == {"a", "b", SP, LF, CR}
Texts == UNION {[1 .. k -> Alphabet] : k \in 0 .. MaxTextLen}

\* The characters String.prototype.trim removes.
IsWhitespace(ch) == ch \in {SP, LF, CR}

\* s.substring(from) and s.substring(0, to), with JavaScript's 0-based indices
SubstringFrom(s, from) == SubSeq(s, from + 1, Len(s))
SubstringTo(s, to) == SubSeq(s, 1, Min(to, Len(s)))

RECURSIVE TrimStart(_)
TrimStart(s) ==
    IF s # <<>> /\ IsWhitespace(Head(s)) THEN TrimStart(Tail(s)) ELSE s

RECURSIVE TrimEnd(_)
TrimEnd(s) ==
    IF s # <<>> /\ IsWhitespace(s[Len(s)]) THEN TrimEnd(SubSeq(s, 1, Len(s) - 1)) ELSE s

\* s.trim()
Trim(s) == TrimEnd(TrimStart(s))

\* s.replace(/\r\n/g, '\n')
RECURSIVE ReplaceCRLF(_)
ReplaceCRLF(s) ==
    IF s = <<>> THEN <<>>
    ELSE IF Len(s) >= 2 /\ s[1] = CR /\ s[2] = LF
    THEN <<LF>> \o ReplaceCRLF(SubstringFrom(s, 2))
    ELSE <<Head(s)>> \o ReplaceCRLF(Tail(s))

\* s.replace(/\r/g, '\n')
ReplaceCR(s) == [i \in 1 .. Len(s) |-> IF s[i] = CR THEN LF ELSE s[i]]

\* Line 101: text.replace(/\r\n/g, '\n').replace(/\r/g, '\n').trim()
Normalize(s) == Trim(ReplaceCR(ReplaceCRLF(s)))

\* (a slip: indexOf for lastIndexOf, the first space instead of the last)
indexOfSpace(s, from) ==
    LET hits == {i \in 0 .. Min(from, Len(s) - 1) : s[i + 1] = SP}
    IN  IF hits = {} THEN -1 ELSE CHOOSE i \in hits : \A j \in hits : i <= j

\* s.lastIndexOf(' ', from): the greatest 0-based index <= from holding a space, or -1
lastIndexOfSpace(s, from) ==
    LET hits == {i \in 0 .. Min(from, Len(s) - 1) : s[i + 1] = SP}
    IN  IF hits = {} THEN -1 ELSE CHOOSE i \in hits : \A j \in hits : j <= i

\* (a slip: the character at the cut is skipped, as if it were always a space)
RECURSIVE SplitLoopSkippingCut(_, _, _)
SplitLoopSkippingCut(out, remaining, m) ==
    IF Len(remaining) > m
    THEN LET found == lastIndexOfSpace(remaining, m)
             splitPos == IF found = -1 THEN m ELSE found
         IN  SplitLoopSkippingCut(Append(out, Trim(SubstringTo(remaining, splitPos))),
                                  Trim(SubstringFrom(remaining, splitPos + 1)), m)
    ELSE IF Len(remaining) > 0 THEN Append(out, remaining) ELSE out

\* Lines 168-191.
RECURSIVE SplitLoop(_, _, _)
SplitLoop(out, remaining, m) ==
    IF Len(remaining) > m
    THEN LET found == lastIndexOfSpace(remaining, m)
             splitPos == IF found = -1 THEN m ELSE found
         IN  SplitLoop(Append(out, Trim(SubstringTo(remaining, splitPos))),
                       Trim(SubstringFrom(remaining, splitPos)), m)
    ELSE IF Len(remaining) > 0 THEN Append(out, remaining) ELSE out

splitLongTextAtWordBoundaries(t, m) == SplitLoop(<<>>, t, m)

\* What the wink-nlp document returns for doc.sentences().out('array') is not
\* part of this repository.  It is modelled as any cutting of the text at
\* whitespace characters (cuts), each piece without the whitespace around it,
\* or as no sentence at all (the edge case of line 113).
RECURSIVE Pieces(_, _, _)
Pieces(t, i, cuts) ==
    \* the pieces of t from 1-based position i on, cut at the positions in cuts
    IF i > Len(t) THEN <<>>
    ELSE LET later == {j \in cuts : j >= i}
             stop == IF later = {} THEN Len(t) + 1
                     ELSE CHOOSE j \in later : \A k \in later : j <= k
         IN  <<Trim(SubSeq(t, i, stop - 1))>> \o Pieces(t, stop + 1, cuts)

NlpOutputs(t) ==
    {<<>>} \cup {Pieces(t, 1, cuts) : cuts \in SUBSET {i \in 1 .. Len(t) : IsWhitespace(t[i])}}

\* The arguments that are no strings: null, undefined, a number, an object.
JsTypes == {"string", "null", "undefined", "number", "object"}

\* Lines 59 and 95: !text || typeof text !== 'string'
NoString(type, t) == type # "string" \/ t = <<>>

\* (a slip: the sentences are returned as the library gave them)
extractSentencesUnfiltered(type, plainText, detected) ==
    IF NoString(type, plainText) THEN <<>> ELSE detected

\* Lines 57-74: extractSentencesWithNLP, given what the library detected.
extractSentencesWithNLP(type, plainText, detected) ==
    IF NoString(type, plainText) THEN <<>>
    ELSE SelectSeq(detected, LAMBDA sentence : Len(Trim(sentence)) > 0)

\* (a slip: the sentence that did not fit is not carried into the next chunk)
GroupStepLosingSentence(st, sentence, m) ==
    LET testChunk == IF st.currentChunk # <<>>
                     THEN st.currentChunk \o <<SP>> \o sentence ELSE sentence
    IN  IF Len(testChunk) > m
        THEN IF st.currentChunk # <<>>
             THEN [chunks |-> Append(st.chunks, Trim(st.currentChunk)),
                   currentChunk |-> <<>>]
             ELSE [chunks |-> st.chunks \o splitLongTextAtWordBoundaries(sentence, m),
                   currentChunk |-> <<>>]
        ELSE [chunks |-> st.chunks, currentChunk |-> testChunk]

\* (a slip: a buffer that grew too long is cut at its word boundaries)
GroupStepCuttingBuffer(st, sentence, m) ==
    LET testChunk == IF st.currentChunk # <<>>
                     THEN st.currentChunk \o <<SP>> \o sentence ELSE sentence
    IN  IF Len(testChunk) > m
        THEN [chunks |-> st.chunks \o splitLongTextAtWordBoundaries(testChunk, m),
              currentChunk |-> <<>>]
        ELSE [chunks |-> st.chunks, currentChunk |-> testChunk]

\* (a slip: >= for >, a chunk is closed when the next sentence fills it exactly)
GroupStepClosingEarly(st, sentence, m) ==
    LET testChunk == IF st.currentChunk # <<>>
                     THEN st.currentChunk \o <<SP>> \o sentence ELSE sentence
    IN  IF Len(testChunk) >= m
        THEN IF st.currentChunk # <<>>
             THEN [chunks |-> Append(st.chunks, Trim(st.currentChunk)),
                   currentChunk |-> sentence]
             ELSE [chunks |-> st.chunks \o splitLongTextAtWordBoundaries(sentence, m),
                   currentChunk |-> <<>>]
        ELSE [chunks |-> st.chunks, currentChunk |-> testChunk]

\* One iteration of the grouping loop (lines 128-148) on the state
\* st = [chunks, currentChunk].
GroupStep(st, sentence, m) ==
    LET testChunk == IF st.currentChunk # <<>>
                     THEN st.currentChunk \o <<SP>> \o sentence ELSE sentence
    IN  IF Len(testChunk) > m
        THEN IF st.currentChunk # <<>>
             THEN [chunks |-> Append(st.chunks, Trim(st.currentChunk)),
                   currentChunk |-> sentence]
             ELSE [chunks |-> st.chunks \o splitLongTextAtWordBoundaries(sentence, m),
                   currentChunk |-> <<>>]
        ELSE [chunks |-> st.chunks, currentChunk |-> testChunk]

RECURSIVE GroupLoop(_, _, _)
GroupLoop(st, ss, m) ==
    IF ss = <<>> THEN st ELSE GroupLoop(GroupStep(st, Head(ss), m), Tail(ss), m)

\* Lines 123-155.
GroupSentences(ss, m) ==
    LET st == GroupLoop([chunks |-> <<>>, currentChunk |-> <<>>], ss, m)
        all == IF Trim(st.currentChunk) # <<>>
               THEN Append(st.chunks, Trim(st.currentChunk)) ELSE st.chunks
    IN  SelectSeq(all, LAMBDA chunk : Len(chunk) > 0)

\* (a slip: < for <=)
FitsInOneChunkStrict(normalizedText, m) == Len(normalizedText) < m
\* Line 104: normalizedText.length <= maxLength
FitsInOneChunk(normalizedText, m) == Len(normalizedText) <= m

\* Lines 93-156, given what the library detects in the normalized text.  The
\* value is the returned array, with the sentences the grouping was given.
intelligentTextChunking(type, t, m, detected) ==
    LET normalizedText == Normalize(t)
        ss == extractSentencesWithNLP("string", normalizedText, detected)
    IN  IF NoString(type, t)
        THEN [chunks |-> <<>>, segmented |-> FALSE, sentences |-> <<>>]
        ELSE IF FitsInOneChunk(normalizedText, m)
        THEN [chunks |-> <<normalizedText>>, segmented |-> FALSE, sentences |-> <<>>]
        ELSE IF Len(ss) = 0
        THEN [chunks |-> <<normalizedText>>, segmented |-> TRUE, sentences |-> ss]
        ELSE IF Len(ss) = 1 /\ Len(ss[1]) > m
        THEN [chunks |-> splitLongTextAtWordBoundaries(ss[1], m),
              segmented |-> TRUE, sentences |-> ss]
        ELSE [chunks |-> GroupSentences(ss, m), segmented |-> TRUE, sentences |-> ss]

\* A call intelligentTextChunking(text, maxLength).
ChunkText ==
    /\ cpc = "input"
    /\ \E detected \in NlpOutputs(Normalize(text)) :
          LET r == intelligentTextChunking(textType, text, maxLength, detected)
          IN  /\ chunks' = r.chunks
              /\ sentences' = r.sentences
              /\ segmented' = r.segmented
    /\ cpc' = "done"
    /\ UNCHANGED <<text, textType, maxLength, remainingText>>
    /\ UNCHANGED <<schedVars, handlerVars, clientVars, synthVars, routeVars>>

\* A call extractSentencesWithNLP(text) on its own; for a string the library
\* detects some cutting of it.
ExtractSentences ==
    /\ cpc = "input"
    /\ \E detected \in NlpOutputs(text) :
          sentences' = extractSentencesWithNLP(textType, text, detected)
    /\ cpc' = "extracted"
    /\ UNCHANGED <<text, textType, maxLength, segmented, chunks, remainingText>>
    /\ UNCHANGED <<schedVars, handlerVars, clientVars, synthVars, routeVars>>

\* A call splitLongTextAtWordBoundaries(text, maxLength) on its own.
SplitText ==
    /\ cpc = "input"
    /\ chunks' = splitLongTextAtWordBoundaries(text, maxLength)
    /\ cpc' = "split"
    /\ UNCHANGED <<text, textType, maxLength, sentences, segmented, remainingText>>
    /\ UNCHANGED <<schedVars, handlerVars, clientVars, synthVars, routeVars>>

\* (a slip: the rest of the text is not trimmed)
SplitIterationWithoutTrim(r, m) ==
    LET found == lastIndexOfSpace(r, m)
        splitPos == IF found = -1 THEN m ELSE found
    IN  [chunk |-> Trim(SubstringTo(r, splitPos)),
         remainingText |-> SubstringFrom(r, splitPos)]

\* Lines 173-183: one iteration of the loop on the remaining text r; the chunk
\* it pushes and the text it leaves.
SplitIteration(r, m) ==
    LET found == lastIndexOfSpace(r, m)
        splitPos == IF found = -1 THEN m ELSE found
    IN  [chunk |-> Trim(SubstringTo(r, splitPos)),
         remainingText |-> Trim(SubstringFrom(r, splitPos))]

\* The call splitLongTextAtWordBoundaries(text, maxLength), iteration by
\* iteration.  Lines 169-170: the function is entered.
SplitEnter ==
    /\ cpc = "input"
    /\ textType = "string"
    /\ cpc' = "splitting"
    /\ chunks' = <<>>
    /\ remainingText' = text
    /\ UNCHANGED <<text, textType, maxLength, sentences, segmented>>
    /\ UNCHANGED <<schedVars, handlerVars, clientVars, synthVars, routeVars>>

\* Lines 172-183: the loop's condition holds, one iteration runs.
SplitIterate ==
    /\ cpc = "splitting"
    /\ Len(remainingText) > maxLength
    /\ LET it == SplitIteration(remainingText, maxLength)
       IN  /\ chunks' = Append(chunks, it.chunk)
           /\ remainingText' = it.remainingText
    /\ UNCHANGED <<cpc, text, textType, maxLength, sentences, segmented>>
    /\ UNCHANGED <<schedVars, handlerVars, clientVars, synthVars, routeVars>>

\* Lines 185-190: the loop is left, the rest is pushed, the function returns.
SplitReturn ==
    /\ cpc = "splitting"
    /\ Len(remainingText) <= maxLength
    /\ chunks' = IF Len(remainingText) > 0 THEN Append(chunks, remainingText) ELSE chunks
    /\ cpc' = "returned"
    /\ UNCHANGED <<text, textType, maxLength, sentences, segmented, remainingText>>
    /\ UNCHANGED <<schedVars, handlerVars, clientVars, synthVars, routeVars>>

(***************************************************************************)
(* The textToSpeech handler (lines 404-509), specification HandlerSpec.    *)
(* The chunk list is kept as its length n.  The run of                     *)
(* processChunksWithRateLimit is taken one job at a time, in index order,  *)
(* each job with the provider outcomes of all its calls: the array it      *)
(* returns does not depend on how the jobs of a batch interleave.          *)
(***************************************************************************)
SequentialLimit == 10               \* chunks.length <= 10 (line 440)
\* const batchOptions (lines 462-467)
batchOptions == [maxConcurrent |-> 10, maxRequestsPerMinute |-> 100, maxRetries |-> 3]

\* The texts of the requests: none, blank ones, and one with something to say.
HandlerTexts == {<<>>, <<SP>>, <<LF, SP>>, <<"a">>}
\* A body is JSON with or without a text property, or it is plain text.
RequestBodies == [json : BOOLEAN, text : HandlerTexts] \cup {[json |-> TRUE]}

\* Lines 415-424: jsonBody.text of a JSON body (undefined when it has no such
\* property), the whole body otherwise.
HasInputText == "text" \in DOMAIN requestBody
inputText == requestBody.text

\* Line 426: !inputText || inputText.trim().length === 0
NoTextProvided == ~HasInputText \/ inputText = <<>> \/ Len(Trim(inputText)) = 0

\* The lengths of the chunk lists intelligentTextChunking returns for the texts
\* that pass line 426: short lists, and the lists on either side of line 440.
ChunkCounts == {1, 2, SequentialLimit, SequentialLimit + 1}

\* Lines 19-39: does initializeClient throw?
initializeClientThrows == ttsClient = "unset" /\ credentialsJson # "valid"

\* (a slip: the padding of the last group is left out)
RECURSIVE toBase64Unpadded(_)
toBase64Unpadded(bytes) ==
    IF Len(bytes) = 0 THEN <<>>
    ELSE IF Len(bytes) = 1
    THEN <<bytes[1] \div 4, (bytes[1] % 4) * 16>>
    ELSE IF Len(bytes) = 2
    THEN <<bytes[1] \div 4, (bytes[1] % 4) * 16 + bytes[2] \div 16, (bytes[2] % 16) * 4>>
    ELSE <<bytes[1] \div 4, (bytes[1] % 4) * 16 + bytes[2] \div 16,
           (bytes[2] % 16) * 4 + bytes[3] \div 64, bytes[3] % 64>>
         \o toBase64Unpadded(SubSeq(bytes, 4, Len(bytes)))

\* Line 491: buffer.toString('base64').  A character of the encoding is kept as
\* its 6-bit value, the padding character '=' as Base64Pad.
Base64Pad == 64
RECURSIVE toBase64(_)
toBase64(bytes) ==
    IF Len(bytes) = 0 THEN <<>>
    ELSE IF Len(bytes) = 1
    THEN <<bytes[1] \div 4, (bytes[1] % 4) * 16, Base64Pad, Base64Pad>>
    ELSE IF Len(bytes) = 2
    THEN <<bytes[1] \div 4, (bytes[1] % 4) * 16 + bytes[2] \div 16, (bytes[2] % 16) * 4,
           Base64Pad>>
    ELSE <<bytes[1] \div 4, (bytes[1] % 4) * 16 + bytes[2] \div 16,
           (bytes[2] % 16) * 4 + bytes[3] \div 64, bytes[3] % 64>>
         \o toBase64(SubSeq(bytes, 4, Len(bytes)))

\* atob(data.audioData), the decoding the frontend applies: groups of four
\* characters, the last with one or two padding characters.
RECURSIVE atob(_)
atob(chars) ==
    IF Len(chars) < 4 THEN <<>>
    ELSE LET a == chars[1]
             b == chars[2]
             c == chars[3]
             d == chars[4]
             first == a * 4 + b \div 16
             second == (b % 16) * 16 + c \div 4
             third == (c % 4) * 64 + d
         IN  (IF c = Base64Pad THEN <<first>>
              ELSE IF d = Base64Pad THEN <<first, second>>
              ELSE <<first, second, third>>) \o atob(SubSeq(chars, 5, Len(chars)))

NoResponse == [status |-> 0]
\* The responses of lines 427-430, 484-495 and 500-506.
BadRequest == [status |-> 400, body |-> [error |-> "No text provided"]]
InternalServerError(message) ==
    [status |-> 500, body |-> [error |-> "Internal server error", message |-> message]]
Ok(audio, count) ==
    [status |-> 200,
     body |-> [success |-> TRUE, audioData |-> audio, format |-> "ogg",
               chunksProcessed |-> count]]

\* The handler's promise rejects: an error left the handler.
Rejected == [status |-> 0, rejected |-> "TypeError"]

\* Lines 497-507: the catch block, entered with an error of the given message.
\* Its first statement calls context.log.error (line 498).  The handler is
\* registered with app.http (lines 1 and 404), the programming model whose
\* context.log is a function; whether that function has a method error is the
\* matter of the library, which is not part of the repository: the call
\* returns, and the 500 response of lines 500-506 follows, or it throws a
\* TypeError out of the catch block.
CatchBlock(message) == {InternalServerError(message), Rejected}

\* The message of the error synthesizeChunk throws (lines 216-221).
SynthesisError(outcome) ==
    IF isRateLimit(outcome) THEN "Rate limit exceeded" ELSE "TTS synthesis failed"

\* (a slip: the segments are joined from the last to the first)
RECURSIVE ConcatFromDescending(_, _)
ConcatFromDescending(buffers, i) ==
    IF i >= n THEN <<>>
    ELSE ConcatFromDescending(buffers, i + 1) \o
         (IF buffers[i] # Undefined /\ Len(buffers[i]) > 0 THEN buffers[i] ELSE <<>>)

\* Line 481: Buffer.concat(audioChunks.filter(chunk => chunk && chunk.length > 0))
RECURSIVE ConcatFrom(_, _)
ConcatFrom(buffers, i) ==
    IF i >= n THEN <<>>
    ELSE (IF buffers[i] # Undefined /\ Len(buffers[i]) > 0
          THEN buffers[i] ELSE <<>>) \o ConcatFrom(buffers, i + 1)

\* Lines 408-440: the client is initialized, the body parsed, the text checked
\* and chunked, and the processing approach chosen.
Receive ==
    /\ hpc = "request"
    /\ IF initializeClientThrows
       THEN /\ response' \in CatchBlock("Failed to initialize Google Cloud TTS client")
            /\ hpc' = "responded"
            /\ UNCHANGED <<ttsClient, n, opts, script, results>>
       ELSE /\ ttsClient' = "client"
            /\ IF NoTextProvided
               THEN /\ response' = BadRequest
                    /\ hpc' = "responded"
                    /\ UNCHANGED <<n, opts, script, results>>
               ELSE /\ \E count \in ChunkCounts :
                          /\ n' = count
                          /\ script' = [c \in 0 .. (count - 1) |-> <<>>]
                          /\ results' = [c \in 0 .. (count - 1) |-> Undefined]
                          /\ IF count <= SequentialLimit
                             THEN hpc' = "sequential" /\ UNCHANGED opts
                             ELSE hpc' = "batch" /\ opts' = batchOptions
                    /\ UNCHANGED response
    /\ UNCHANGED <<credentialsJson, requestBody, hnext, audioChunks>>
    /\ UNCHANGED <<pc, batchStart, task, settled, failedChunks, processedCount, mainWake,
                   now, writes, reports, thrown>>
    /\ UNCHANGED <<chunkVars, clientVars, synthVars, routeVars>>

\* Line 445, the call: the sequential loop calls synthesizeChunk for the next
\* chunk and awaits it.
SequentialStart ==
    /\ hpc = "sequential"
    /\ hnext < n
    /\ hpc' = "calling"
    /\ UNCHANGED <<ttsClient, credentialsJson, requestBody, hnext, audioChunks, response>>
    /\ UNCHANGED schedVars
    /\ UNCHANGED <<chunkVars, clientVars, synthVars, routeVars>>

\* (a slip: a failed chunk is passed over and the loop goes on)
SequentialCallAbsorbing(outcome) ==
    /\ hpc = "calling"
    /\ script' = [script EXCEPT ![hnext] = Append(@, outcome)]
    /\ audioChunks' = [c \in 0 .. hnext |->
                          IF c = hnext
                          THEN (IF outcome = "ok" THEN Audio(hnext, 0) ELSE EmptyBuffer)
                          ELSE audioChunks[c]]
    /\ hnext' = hnext + 1
    /\ hpc' = IF hnext + 1 < n THEN "sequential" ELSE "assemble"
    /\ UNCHANGED response
    /\ UNCHANGED <<ttsClient, credentialsJson, requestBody>>
    /\ UNCHANGED <<pc, opts, n, batchStart, task, settled, results, failedChunks,
                   processedCount, mainWake, now, writes, reports, thrown>>
    /\ UNCHANGED <<chunkVars, clientVars, synthVars, routeVars>>

\* Lines 445-451, the call's end: the audio is pushed and the loop goes on, or
\* the error thrown by synthesizeChunk leaves the loop for the handler's catch
\* block (line 497).
SequentialCall(outcome) ==
    /\ hpc = "calling"
    /\ script' = [script EXCEPT ![hnext] = Append(@, outcome)]
    /\ IF outcome = "ok"
       THEN /\ audioChunks' = [c \in 0 .. hnext |->
                                  IF c = hnext THEN Audio(hnext, 0) ELSE audioChunks[c]]
            /\ hnext' = hnext + 1
            /\ hpc' = IF hnext + 1 < n THEN "sequential" ELSE "assemble"
            /\ UNCHANGED response
       ELSE /\ response' \in CatchBlock(SynthesisError(outcome))
            /\ hpc' = "responded"
            /\ UNCHANGED <<hnext, audioChunks>>
    /\ UNCHANGED <<ttsClient, credentialsJson, requestBody>>
    /\ UNCHANGED <<pc, opts, n, batchStart, task, settled, results, failedChunks,
                   processedCount, mainWake, now, writes, reports, thrown>>
    /\ UNCHANGED <<chunkVars, clientVars, synthVars, routeVars>>

\* The provider outcomes of the calls of one job (lines 298-314): rate-limit
\* errors while attempts remain, then an answer or an error that ends the job.
RateLimited(k) == [i \in 1 .. k |-> "code8"]
JobScripts ==
    {RateLimited(k) \o <<last>> : k \in 0 .. opts.maxRetries, last \in {"ok", "internal"}}
        \cup {RateLimited(opts.maxRetries + 1)}

\* The jobs so far that met a provider error.
Troubled == {c \in Chunks : \E k \in DOMAIN script[c] : script[c][k] # "ok"}

\* One job of processChunksWithRateLimit and the recording of its result
\* (lines 332-343).  Provider errors stop once the jobs that met one are too
\* many for the run to be tolerated.
BatchJob(js) ==
    /\ hpc = "batch"
    /\ hnext < n
    /\ js # <<"ok">> => ~TooManyFailed(Cardinality(Troubled))
    /\ script' = [script EXCEPT ![hnext] = js]
    /\ IF js[Len(js)] = "ok"
       THEN /\ results' = [results EXCEPT ![hnext] = Audio(hnext, Len(js) - 1)]
            /\ processedCount' = processedCount + 1
            /\ UNCHANGED failedChunks
       ELSE /\ failedChunks' = Append(failedChunks, [index |-> hnext, error |-> js[Len(js)]])
            /\ UNCHANGED <<results, processedCount>>
    /\ hnext' = hnext + 1
    /\ UNCHANGED <<hpc, ttsClient, credentialsJson, requestBody, audioChunks, response>>
    /\ UNCHANGED <<pc, opts, n, batchStart, task, settled, mainWake, now, writes, reports, thrown>>
    /\ UNCHANGED <<chunkVars, clientVars, synthVars, routeVars>>

\* Lines 374-401 and 473-478: processChunksWithRateLimit throws or returns.
BatchReturn ==
    /\ hpc = "batch"
    /\ hnext = n
    /\ IF TooManyFailed(Len(failedChunks))
       THEN /\ response' \in CatchBlock("Failed to process chunks")
            /\ hpc' = "responded"
            /\ UNCHANGED <<results, audioChunks>>
       ELSE /\ results' = [c \in Chunks |->
                              IF results[c] = Undefined THEN EmptyBuffer ELSE results[c]]
            /\ audioChunks' = results'
            /\ hpc' = "assemble"
            /\ UNCHANGED response
    /\ UNCHANGED <<ttsClient, credentialsJson, requestBody, hnext>>
    /\ UNCHANGED <<pc, opts, n, batchStart, task, settled, failedChunks, processedCount,
                   mainWake, now, script, writes, reports, thrown>>
    /\ UNCHANGED <<chunkVars, clientVars, synthVars, routeVars>>

\* Lines 480-495: the audio is combined and returned.
Respond ==
    /\ hpc = "assemble"
    /\ response' = Ok(toBase64(ConcatFrom(audioChunks, 0)), n)
    /\ hpc' = "responded"
    /\ UNCHANGED <<ttsClient, credentialsJson, requestBody, hnext, audioChunks>>
    /\ UNCHANGED schedVars
    /\ UNCHANGED <<chunkVars, clientVars, synthVars, routeVars>>

(***************************************************************************)
(* initializeClient (lines 16-39) called by several handler invocations of *)
(* one process, specification ClientSpec.  The function has no await: its *)
(* body runs to its end before any other invocation can run.               *)
(***************************************************************************)
Invocations == 1 .. MaxCalls

\* An invocation: none (not triggered yet), arrived (before line 412), settled
\* (the promise of initializeClient is settled), resumed (the handler went on).
\* handle is the serial number of the client object it was given, 0 for none.
NotInvoked == [st |-> "none", handle |-> 0, threw |-> FALSE]

\* (a slip: the client is built on every call, whether one exists or not)
initializeClientEveryTime ==
    IF credentialsJson # "valid"
    THEN [ttsClient |-> ttsClient, constructed |-> constructed, attempts |-> attempts + 1,
          handle |-> 0, threw |-> TRUE]
    ELSE [ttsClient |-> "client", constructed |-> constructed + 1,
          attempts |-> attempts + 1, handle |-> constructed + 1, threw |-> FALSE]
\* Lines 19-39: the module variable, the counts and the outcome of one call.
initializeClient ==
    IF ttsClient # "unset"
    THEN [ttsClient |-> ttsClient, constructed |-> constructed, attempts |-> attempts,
          handle |-> constructed, threw |-> FALSE]
    ELSE IF credentialsJson # "valid"
    THEN [ttsClient |-> ttsClient, constructed |-> constructed, attempts |-> attempts + 1,
          handle |-> 0, threw |-> TRUE]
    ELSE [ttsClient |-> "client", constructed |-> constructed + 1,
          attempts |-> attempts + 1, handle |-> constructed + 1, threw |-> FALSE]

ClientRest == UNCHANGED <<hpc, credentialsJson, requestBody, hnext, audioChunks, response>>

\* The function host triggers the handler (line 408).
Trigger(i) ==
    /\ caller[i].st = "none"
    /\ caller' = [caller EXCEPT ![i].st = "arrived"]
    /\ UNCHANGED <<ttsClient, constructed, attempts>>
    /\ ClientRest
    /\ UNCHANGED <<schedVars, chunkVars, synthVars, routeVars>>

\* Line 412, the call: initializeClient() runs.
CallInitializeClient(i) ==
    /\ caller[i].st = "arrived"
    /\ LET r == initializeClient
       IN  /\ ttsClient' = r.ttsClient
           /\ constructed' = r.constructed
           /\ attempts' = r.attempts
           /\ caller' = [caller EXCEPT ![i] = [st |-> "settled", handle |-> r.handle,
                                               threw |-> r.threw]]
    /\ ClientRest
    /\ UNCHANGED <<schedVars, chunkVars, synthVars, routeVars>>

\* Line 412, the await: the handler goes on with the client, or to its catch block.
Resume(i) ==
    /\ caller[i].st = "settled"
    /\ caller' = [caller EXCEPT ![i].st = "resumed"]
    /\ UNCHANGED <<ttsClient, constructed, attempts>>
    /\ ClientRest
    /\ UNCHANGED <<schedVars, chunkVars, synthVars, routeVars>>

\* No invocation of this kind, in the runs of the other specifications.
ClientIdle ==
    /\ caller = <<>>
    /\ constructed = 0
    /\ attempts = 0

(***************************************************************************)
(* synthesizeChunk's classification of provider errors (lines 213-234)     *)
(* and the retry loop's use of it (lines 298-314), specification           *)
(* SynthSpec.  A message is a sequence of characters.                      *)
(***************************************************************************)
MaxPieces == 2          \* an error message is made of 0..MaxPieces pieces
MaxJobRetries == 1      \* options.maxRetries ranges over 0..MaxJobRetries

RateLimitCode == 8      \* gRPC RESOURCE_EXHAUSTED
quota == <<"q", "u", "o", "t", "a">>
rate == <<"r", "a", "t", "e">>

\* The error messages of the provider: pieces put together, so that a word
\* may come whole, in two halves, capitalised or not at all.
Vocabulary == {quota, rate, <<"r", "a">>, <<"t", "e">>, <<"Q", "u", "o", "t", "a">>, <<"x">>}
RECURSIVE MessagesOf(_)
MessagesOf(k) ==
    IF k = 0 THEN {<<>>} ELSE {m \o p : m \in MessagesOf(k - 1), p \in Vocabulary}
Messages == UNION {MessagesOf(k) : k \in 0 .. MaxPieces}

\* What client.synthesizeSpeech rejects with: a gRPC status code
\* (8 RESOURCE_EXHAUSTED, 3 INVALID_ARGUMENT, 13 INTERNAL, 14 UNAVAILABLE) and
\* a message.
ErrorCodes == {RateLimitCode, 3, 13, 14}
ProviderErrors == [code : ErrorCodes, message : Messages]
NoError == [code |-> 0, message |-> <<>>]

\* s.includes(sub)
includes(s, sub) == \E i \in 1 .. (Len(s) - Len(sub) + 1) : SubSeq(s, i, i + Len(sub) - 1) = sub

\* Lines 228-234: new RateLimitError(message); line 221: new Error(message),
\* an object without the property isRateLimit.
RateLimitError(message) == [name |-> "RateLimitError", isRateLimit |-> TRUE, message |-> message]
NewError(message) == [name |-> "Error", message |-> message]
Null == [name |-> "null"]

\* (a slip: only the status code is looked at)
synthesizeChunkThrowsByCode(error) ==
    IF error.code = RateLimitCode
    THEN RateLimitError(<<"Rate limit exceeded: ">> \o error.message)
    ELSE NewError(<<"TTS synthesis failed: ">> \o error.message)

\* Lines 216-222: what synthesizeChunk throws when the provider rejects with error.
synthesizeChunkThrows(error) ==
    IF error.code = RateLimitCode \/ includes(error.message, quota) \/ includes(error.message, rate)
    THEN RateLimitError(<<"Rate limit exceeded: ">> \o error.message)
    ELSE NewError(<<"TTS synthesis failed: ">> \o error.message)

\* Line 305: error.isRateLimit
hasIsRateLimit(error) == "isRateLimit" \in DOMAIN error /\ error.isRateLimit

\* Lines 300-302: synthesizeChunk returns the audio, the promise resolves.
CallSucceeds ==
    /\ jpc = "call"
    /\ jpc' = "succeeded"
    /\ providerError' = NoError
    /\ UNCHANGED <<jobMaxRetries, jobAttempt, lastError>>
    /\ UNCHANGED <<schedVars, chunkVars, handlerVars, clientVars, routeVars>>

\* Lines 303-312: synthesizeChunk throws, the catch block keeps the error and
\* either sleeps to retry or leaves the loop.
CallFails(error) ==
    /\ jpc = "call"
    /\ providerError' = error
    /\ lastError' = synthesizeChunkThrows(error)
    /\ jpc' = IF hasIsRateLimit(lastError') /\ jobAttempt < jobMaxRetries
              THEN "backoff" ELSE "failed"
    /\ UNCHANGED <<jobMaxRetries, jobAttempt>>
    /\ UNCHANGED <<schedVars, chunkVars, handlerVars, clientVars, routeVars>>

\* Lines 308-310: the backoff is over, the loop continues with attempt + 1.
BackoffOver ==
    /\ jpc = "backoff"
    /\ jpc' = "call"
    /\ jobAttempt' = jobAttempt + 1
    /\ UNCHANGED <<jobMaxRetries, providerError, lastError>>
    /\ UNCHANGED <<schedVars, chunkVars, handlerVars, clientVars, routeVars>>

\* The route at rest, in the other runs.
NoRouteResponse == [status |-> 0, body |-> <<>>]
RouteIdle ==
    /\ rpc = "idle"
    /\ session = [name |-> "null"]
    /\ routeRequest = [json |-> "none"]
    /\ env = [url |-> "", key |-> ""]
    /\ bodyRead = FALSE
    /\ fetched = <<>>
    /\ routeResponse = NoRouteResponse

\* The job of the retry loop's runs at rest, in the other runs.
SynthIdle ==
    /\ jpc = "idle"
    /\ jobMaxRetries = 0
    /\ jobAttempt = 0
    /\ providerError = NoError
    /\ lastError = Null

\* The handler at rest, in the runs of the scheduler and of the chunker.
HandlerIdle ==
    /\ hpc = "idle"
    /\ ttsClient = "unset"
    /\ credentialsJson = "valid"
    /\ requestBody = [json |-> FALSE, text |-> <<>>]
    /\ hnext = 0
    /\ audioChunks = <<>>
    /\ response = NoResponse

\* The chunker at rest, in the runs of the scheduler.
ChunkIdle ==
    /\ cpc = "idle"
    /\ text = <<>>
    /\ textType = "string"
    /\ maxLength = 1
    /\ sentences = <<>>
    /\ segmented = FALSE
    /\ chunks = <<>>
    /\ remainingText = <<>>

\* The scheduler at rest, in the runs of the chunker.
SchedIdle ==
    /\ pc = "idle"
    /\ n = 0
    /\ opts = [maxConcurrent |-> 1, maxRequestsPerMinute |-> 1, maxRetries |-> 0]
    /\ batchStart = 0
    /\ task = <<>>
    /\ settled = <<>>
    /\ results = <<>>
    /\ failedChunks = <<>>
    /\ processedCount = 0
    /\ mainWake = 0
    /\ now = 0
    /\ script = <<>>
    /\ writes = <<>>
    /\ reports = <<>>
    /\ thrown = NotThrown

ChunkInit ==
    /\ cpc = "input"
    /\ \/ textType = "string" /\ text \in Texts
       \/ textType \in JsTypes \ {"string"} /\ text = <<>>
    /\ maxLength \in 1 .. MaxMaxLength
    /\ sentences = <<>>
    /\ segmented = FALSE
    /\ chunks = <<>>
    /\ remainingText = <<>>
    /\ SchedIdle
    /\ HandlerIdle
    /\ ClientIdle
    /\ SynthIdle
    /\ RouteIdle

ChunkNext ==
    \/ ChunkText
    \/ SplitText
    \/ ExtractSentences

ChunkSpec == ChunkInit /\ [][ChunkNext]_vars

\* The runs of splitLongTextAtWordBoundaries' loop, on the texts made of a
\* letter, the space and one other whitespace character; the function runs on
\* when it can.
SplitTexts == {t \in Texts : \A i \in DOMAIN t : t[i] \in {"a", SP, LF}}

SplitInit == ChunkInit /\ textType = "string" /\ text \in SplitTexts

SplitNext == SplitEnter \/ SplitIterate \/ SplitReturn

SplitSpec == SplitInit /\ [][SplitNext]_vars /\ WF_vars(SplitNext)

Init ==
    /\ pc = "init"
    /\ \/ n \in 0 .. MaxChunks /\ opts \in SmallOptions
       \/ n = LargeChunks /\ opts \in LargeOptions
    /\ batchStart = 0
    /\ task = [c \in Chunks |-> Idle]
    /\ settled = <<>>
    /\ results = [c \in Chunks |-> Undefined]
    /\ failedChunks = <<>>
    /\ processedCount = 0
    /\ mainWake = 0
    /\ now = 0
    /\ script = [c \in Chunks |-> <<>>]
    /\ writes = [c \in Chunks |-> 0]
    /\ reports = <<>>
    /\ thrown = NotThrown
    /\ ChunkIdle
    /\ HandlerIdle
    /\ ClientIdle
    /\ SynthIdle
    /\ RouteIdle

Next ==
    \/ Start
    \/ \E c \in Chunks : StaggerFire(c)
    \/ \E c \in Chunks, outcome \in ProviderOutcomes : CallReturn(c, outcome)
    \/ \E c \in Chunks : BackoffFire(c)
    \/ BatchDone
    \/ CooldownFire
    \/ Tick

Spec == Init /\ [][Next]_vars

\* Time passes at the end of the clock's range: the clock stays where it is
\* and the deadlines of the pending timers come one tick nearer.
TickAtRangeEnd ==
    /\ pc \in {"await", "cooldown"}
    /\ ~TimerDue
    /\ now >= MaxTicks * TickMs
    /\ pc = "cooldown" \/ \E c \in Chunks : task[c].st \in {"stagger", "backoff"}
    /\ task' = [c \in Chunks |->
                  IF task[c].st \in {"stagger", "backoff"}
                  THEN [task[c] EXCEPT !.since = @ - TickMs, !.wakeAt = @ - TickMs]
                  ELSE task[c]]
    /\ mainWake' = IF pc = "cooldown" THEN mainWake - TickMs ELSE mainWake
    /\ UNCHANGED <<pc, opts, n, batchStart, settled, results, failedChunks,
                   processedCount, now, script, writes, reports, thrown>>
    /\ UNCHANGED <<chunkVars, handlerVars, clientVars, synthVars, routeVars>>

\* The runs of the scheduler to their end, however long they take: the small
\* chunk lists, time passing beyond the clock's range, every synthesis call
\* returning, every due timer firing and the function running when it can.
LiveInit == Init /\ n <= MaxChunks

LiveNext == Next \/ TickAtRangeEnd

Fairness ==
    /\ WF_vars(Start \/ BatchDone)
    /\ WF_vars(\E c \in Chunks, outcome \in ProviderOutcomes : CallReturn(c, outcome))
    /\ WF_vars(CooldownFire \/ \E c \in Chunks : StaggerFire(c) \/ BackoffFire(c))
    /\ WF_vars(Tick \/ TickAtRangeEnd)

LiveSpec == LiveInit /\ [][LiveNext]_vars /\ Fairness

\* A request arrives at a function instance whose client is not yet built (the
\* credentials being whatever the environment holds) or was built earlier.
HandlerInit ==
    /\ hpc = "request"
    /\ \/ ttsClient = "unset" /\ credentialsJson \in {"missing", "malformed", "valid"}
       \/ ttsClient = "client" /\ credentialsJson = "valid"
    /\ requestBody \in RequestBodies
    /\ hnext = 0
    /\ audioChunks = <<>>
    /\ response = NoResponse
    /\ SchedIdle
    /\ ChunkIdle
    /\ ClientIdle
    /\ SynthIdle
    /\ RouteIdle

HandlerNext ==
    \/ Receive
    \/ SequentialStart
    \/ \E outcome \in ProviderOutcomes : SequentialCall(outcome)
    \/ \E js \in JobScripts : BatchJob(js)
    \/ BatchReturn
    \/ Respond

HandlerSpec == HandlerInit /\ [][HandlerNext]_vars

\* A process has just started: no client yet, the credentials whatever the
\* environment holds, and MaxCalls invocations to come.
ClientInit ==
    /\ caller = [i \in Invocations |-> NotInvoked]
    /\ constructed = 0
    /\ attempts = 0
    /\ ttsClient = "unset"
    /\ credentialsJson \in {"missing", "malformed", "valid"}
    /\ hpc = "idle"
    /\ requestBody = [json |-> FALSE, text |-> <<>>]
    /\ hnext = 0
    /\ audioChunks = <<>>
    /\ response = NoResponse
    /\ SchedIdle
    /\ ChunkIdle
    /\ SynthIdle
    /\ RouteIdle

ClientNext ==
    \/ \E i \in Invocations : Trigger(i)
    \/ \E i \in Invocations : CallInitializeClient(i)
    \/ \E i \in Invocations : Resume(i)

ClientSpec == ClientInit /\ [][ClientNext]_vars

\* One job: the retry loop is entered with attempt = 0 (line 298).
SynthInit ==
    /\ jpc = "call"
    /\ jobMaxRetries \in 0 .. MaxJobRetries
    /\ jobAttempt = 0
    /\ providerError = NoError
    /\ lastError = Null
    /\ SchedIdle
    /\ ChunkIdle
    /\ HandlerIdle
    /\ ClientIdle
    /\ RouteIdle

SynthNext ==
    \/ CallSucceeds
    \/ \E error \in ProviderErrors : CallFails(error)
    \/ BackoffOver

SynthSpec == SynthInit /\ [][SynthNext]_vars

(***************************************************************************)
(* Properties of processChunksWithRateLimit, checked under Spec.           *)
(***************************************************************************)
Terminal == pc \in {"returned", "thrown"}

\* The last provider outcome of chunk c.
LastOutcome(c) == script[c][Len(script[c])]

\* The chunks whose calls are over: they succeeded, or they failed for good.
Succeeded == {c \in Chunks : task[c].st = "resolved" /\ LastOutcome(c) = "ok"}
Failed == {c \in Chunks : task[c].st = "resolved" /\ LastOutcome(c) # "ok"}

\* The chunks whose batch has been through the results loop of lines 332-343.
Recorded ==
    {c \in Chunks : \/ Terminal
                    \/ c < batchStart
                    \/ pc = "cooldown" /\ c < batchStart + batchSize}

FailedIndices == {failedChunks[k].index : k \in DOMAIN failedChunks}

AlwaysRateLimited(c) == \A k \in DOMAIN script[c] : script[c][k] = "code8"

\* C1: at every instant of a run, the number of synthesis calls in flight is
\* at most maxConcurrent.
C1_InFlightWithinMaxConcurrent == Cardinality(InFlight) <= opts.maxConcurrent

\* C1 witness: the cap is reached, one of the calls in flight being a retry.
C1_Witness ==
    /\ Cardinality(InFlight) = opts.maxConcurrent
    /\ opts.maxConcurrent = 2
    /\ \E c \in InFlight : task[c].attempt > 0

\* C2, the calls: a chunk all of whose calls fail with a rate-limit error is
\* called exactly maxRetries + 1 times and is then recorded as failed.
C2_CallsOfRateLimitedChunk ==
    \A c \in Chunks :
        AlwaysRateLimited(c) =>
            /\ Len(script[c]) <= opts.maxRetries + 1
            /\ task[c].st = "resolved" =>
                  /\ Len(script[c]) = opts.maxRetries + 1
                  /\ ~task[c].success
            /\ c \in Recorded => c \in FailedIndices

\* C2, the waits: the sleep before retry number a (a = 0, 1, ...) lasts at least
\* initialRetryDelay * 2^a.
C2_BackoffLastsLongEnough ==
    \A c \in Chunks :
        (task[c].st = "backoff" /\ task'[c].st = "inflight") =>
            now - task[c].since >= initialRetryDelay * Pow2(task[c].attempt)

\* C2: both parts: the calls of a chunk that is always rate-limited (in every
\* state) and the length of the sleep before each of its retries (in every step).
C2_RateLimitedChunkRetried ==
    [](C2_CallsOfRateLimitedChunk) /\ [][C2_BackoffLastsLongEnough]_vars

\* C2 witness: a chunk was rate-limited on all of its 3 calls (maxRetries = 2)
\* and is recorded as failed.
C2_Witness ==
    \E c \in Chunks :
        /\ opts.maxRetries = 2
        /\ script[c] = <<"code8", "code8", "code8">>
        /\ c \in FailedIndices

\* C3: a chunk whose call fails with an error that is not a rate-limit error
\* has failed for good: that call is its last one, whatever its attempt number.
C3_OtherFailureIsTerminal ==
    \A c \in Chunks :
        \A k \in DOMAIN script[c] :
            (script[c][k] # "ok" /\ ~isRateLimit(script[c][k])) =>
                /\ k = Len(script[c])
                /\ task[c].st = "resolved"
                /\ ~task[c].success

\* C3 witness: a chunk failed with another error on a retry, with retries left.
C3_Witness ==
    \E c \in Chunks :
        /\ opts.maxRetries = 2
        /\ script[c] = <<"code8", "internal">>
        /\ task[c].st = "resolved"
        /\ c \in FailedIndices

\* C4: when all chunks are processed, the run succeeds if failed / total <= 0.10,
\* with the empty buffer at exactly the failed indices, and fails if
\* failed / total > 0.10.
C4_FailureRatioDecides ==
    Terminal =>
        IF Cardinality(Failed) * 10 <= n
        THEN /\ pc = "returned"
             /\ \A c \in Chunks : results[c] = EmptyBuffer <=> c \in Failed
        ELSE pc = "thrown"

\* C4 witness: a run that succeeded with a failed chunk.
C4_Witness ==
    /\ pc = "returned"
    /\ Cardinality(Failed) = 1
    /\ \E c \in Failed : results[c] = EmptyBuffer

\* C5: the returned array has one slot per chunk, each written exactly once;
\* slot i holds the audio of the successful call for chunk i, or the empty
\* buffer if chunk i failed.
C5_OneSlotPerChunk ==
    pc = "returned" =>
        /\ DOMAIN results = Chunks
        /\ \A c \in Chunks :
              /\ writes[c] = 1
              /\ c \in Succeeded => results[c] = <<c, Len(script[c]) - 1>>
              /\ c \in Failed => results[c] = EmptyBuffer
              /\ c \in Succeeded \cup Failed

\* C5 witness: a returned array of several batches with audio and an empty slot.
C5_Witness ==
    /\ pc = "returned"
    /\ batchStart > 0
    /\ \E c \in Chunks : c > 0 /\ c \in Failed /\ writes[c] = 1
    /\ \E c \in Chunks : c > 0 /\ c \in Succeeded /\ writes[c] = 1

\* The result array and the audio that the provider outcomes alone determine.
ExpectedResults ==
    [c \in Chunks |-> IF LastOutcome(c) = "ok" THEN <<c, Len(script[c]) - 1>> ELSE <<>>]

RECURSIVE ExpectedAudio(_)
ExpectedAudio(c) ==
    \* the audio of the chunks c, c + 1, ... in this order
    IF c >= n THEN <<>> ELSE ExpectedResults[c] \o ExpectedAudio(c + 1)

finalAudio == ConcatFrom(results, 0)

\* C6: the returned array and the concatenated audio are those the per-chunk
\* provider outcomes determine, in whatever order the tasks of a batch completed.
C6_IndependentOfCompletionOrder ==
    pc = "returned" =>
        /\ results = ExpectedResults
        /\ finalAudio = ExpectedAudio(0)

\* C6 witness: a run returned whose last batch completed in reverse slot order.
C6_Witness ==
    /\ pc = "returned"
    /\ Len(settled) = 2
    /\ settled[1] > settled[2]
    /\ finalAudio # <<>>

\* C7: in a 60 second window at most maxRequestsPerMinute synthesis calls are
\* started; stated for the window that begins with the run.
C7_WithinRequestsPerMinute ==
    now < MinuteMs => CountCalls(Chunks) <= opts.maxRequestsPerMinute

\* The batch starts of the loop of line 279, and the chunks with a call started.
BatchStarts == {b \in Chunks : b % batchSize = 0}
CallStarted == {c \in Chunks : script[c] # <<>> \/ task[c].st = "inflight"}

\* C20: the batches are runs of batchSize consecutive chunks (the last may be
\* shorter), every chunk is in exactly one batch, and a chunk has a synthesis
\* call started only when every chunk of the batches before its own has its
\* job over (resolved, not in flight and not waiting out a backoff).
C20_BatchesInOrderWithBarrier ==
    pc # "init" =>
        /\ \A c \in Chunks : Cardinality({b \in BatchStarts : c \in Batch(b)}) = 1
        /\ \A b \in BatchStarts :
              /\ Batch(b) = b .. Min(b + batchSize - 1, n - 1)
              /\ Cardinality(Batch(b)) = batchSize \/ b + batchSize > n
        /\ \A c \in CallStarted, d \in Chunks :
              d \div batchSize < c \div batchSize => task[d].st = "resolved"
        /\ \A c \in Chunks : task[c].st # "none" => c < batchStart + batchSize

\* C20 witness: a call of the second batch is in flight after a chunk of the
\* first batch was rate-limited and retried while the other chunk of its batch
\* had already resolved.
C20_Witness ==
    /\ pc = "await"
    /\ batchSize = 2
    /\ batchStart = batchSize
    /\ task[batchStart].st = "inflight"
    /\ Len(script[0]) = 1
    /\ Len(script[1]) > 1

\* The reports with the status msg, as places in the log.
ReportsSaying(msg) == {i \in DOMAIN reports : reports[i].status.msg = msg}

\* The batches that are over.
BatchesDone ==
    IF pc = "await" THEN batchStart \div batchSize
    ELSE IF pc = "cooldown" THEN (batchStart \div batchSize) + 1
    ELSE CeilDiv(n, batchSize)

\* C19, as stated: every report of the progress callback carries the processed,
\* failed and total counts and a status message.
C19_EveryReportCarriesCounts ==
    \A i \in DOMAIN reports :
        {"processed", "failed", "total", "status"} \subseteq DOMAIN reports[i]

\* C19, amended: the callback is called once before any synthesis call starts,
\* with the processed count 0, the total and a status but no failed count; once
\* after each batch is over and before the next one starts; and once right
\* after that when a cooldown is entered, before the wait.  The reports after a
\* batch and before a cooldown carry the processed, failed and total counts of
\* the batches that are over, and a status.
C19_ReportsAtBatchBoundaries ==
    /\ pc = "init" => reports = <<>> /\ CountCalls(Chunks) = 0
    /\ pc \in {"await", "cooldown", "returned", "thrown"} =>
          /\ reports # <<>>
          /\ reports[1] = InitialReport
          /\ DOMAIN reports[1] = {"processed", "total", "status", "estimatedTimeMinutes"}
          /\ ReportsSaying("Starting batch processing...") = {1}
          /\ Cardinality(ReportsSaying("Processed batch")) = BatchesDone
          /\ Cardinality(ReportsSaying("Rate limit cooldown")) =
                 IF batchDelayMs = 0 \/ BatchesDone = 0 THEN 0
                 ELSE IF Terminal THEN BatchesDone - 1
                 ELSE BatchesDone
    /\ pc = "cooldown" => reports[Len(reports)].status.msg = "Rate limit cooldown"
    /\ \A i \in ReportsSaying("Processed batch") :
          /\ {"processed", "failed", "total", "status"} \subseteq DOMAIN reports[i]
          /\ reports[i].total = n
          /\ reports[i].processed + reports[i].failed =
                 Min(n, reports[i].status.batch * batchSize)
          /\ reports[i].status.batch = Cardinality({j \in ReportsSaying("Processed batch") : j <= i})
    /\ \A i \in ReportsSaying("Rate limit cooldown") :
          /\ {"processed", "failed", "total", "status"} \subseteq DOMAIN reports[i]
          /\ i > 1
          /\ reports[i - 1].status.msg = "Processed batch"
          /\ reports[i].processed = reports[i - 1].processed
          /\ reports[i].failed = reports[i - 1].failed
          /\ reports[i].total = n

\* C19 witness: a cooldown is being waited out after a batch in which a chunk
\* failed and another succeeded, the three reports made so far.
C19_Witness ==
    /\ pc = "cooldown"
    /\ Len(reports) = 3
    /\ reports[3].failed > 0
    /\ reports[3].processed > 0

(***************************************************************************)
(* Properties of intelligentTextChunking, checked under ChunkSpec.         *)
(***************************************************************************)
\* C8: every returned chunk has length <= maxLength; stated for the calls in
\* which the segmentation detected sentences, the path of a sentence longer
\* than maxLength that arrives while the running buffer is non-empty.
C8_ChunksWithinMaxLength ==
    (cpc = "done" /\ sentences # <<>>) =>
        \A i \in DOMAIN chunks : Len(chunks[i]) <= maxLength

\* C9, as stated: a text whose normalized form has length <= maxLength comes
\* back as exactly one chunk, the normalized text.
C9_ShortTextIsOneChunk ==
    (cpc = "done" /\ Len(Normalize(text)) <= maxLength) => chunks = <<Normalize(text)>>

\* C9, amended: a non-empty text whose normalized form has length <= maxLength
\* comes back as exactly one chunk, the normalized text; the empty text comes
\* back as no chunk.
C9_NonEmptyShortTextIsOneChunk ==
    (cpc = "done" /\ Len(Normalize(text)) <= maxLength) =>
        IF text = <<>> THEN chunks = <<>> ELSE chunks = <<Normalize(text)>>

\* C9 witness: a text with a carriage return and whitespace around it, whose
\* normalized form has exactly maxLength characters, was chunked.
C9_Witness ==
    /\ cpc = "done"
    /\ \E i \in DOMAIN text : text[i] = CR
    /\ Len(Normalize(text)) = maxLength
    /\ Len(text) > maxLength
    /\ Len(chunks) = 1

\* The characters of the strings of ss, in order.
RECURSIVE Flatten(_)
Flatten(ss) == IF ss = <<>> THEN <<>> ELSE Head(ss) \o Flatten(Tail(ss))

\* The strings of ss joined by single spaces.
RECURSIVE JoinBySpace(_)
JoinBySpace(ss) ==
    IF ss = <<>> THEN <<>>
    ELSE IF Len(ss) = 1 THEN ss[1]
    ELSE ss[1] \o <<SP>> \o JoinBySpace(Tail(ss))

WithoutWhitespace(s) == SelectSeq(s, LAMBDA ch : ~IsWhitespace(ch))

\* C10: for the sentences the segmentation produced, the chunks hold the
\* characters of every sentence once and in the original order, whitespace
\* apart; when no sentence had to be cut (none is longer than maxLength), the
\* chunks joined by single spaces are the sentences joined by single spaces.
C10_SentencesPreserved ==
    (cpc = "done" /\ segmented /\ sentences # <<>>) =>
        /\ WithoutWhitespace(Flatten(chunks)) = WithoutWhitespace(Flatten(sentences))
        /\ (\A i \in DOMAIN sentences : Len(sentences[i]) <= maxLength) =>
              JoinBySpace(chunks) = JoinBySpace(sentences)

\* C10 witness: three sentences were grouped into two chunks.
C10_Witness ==
    /\ cpc = "done"
    /\ segmented
    /\ Len(sentences) = 3
    /\ Len(chunks) = 2
    /\ \A i \in DOMAIN sentences : Len(sentences[i]) <= maxLength

\* C11: a sentence of length <= maxLength is never cut: the chunk that holds it
\* is a run of consecutive whole sentences joined by single spaces.
C11_ShortSentenceInOneChunk ==
    (cpc = "done" /\ segmented /\ sentences # <<>>) =>
        \A i \in DOMAIN sentences :
            Len(sentences[i]) <= maxLength =>
                \E j \in DOMAIN chunks, a \in 1 .. i, b \in i .. Len(sentences) :
                    chunks[j] = JoinBySpace(SubSeq(sentences, a, b))

\* C11 witness: a sentence of several words that fits maxLength did not fit the
\* running chunk, and the text came back as more than one chunk.
C11_Witness ==
    /\ cpc = "done"
    /\ segmented
    /\ Len(chunks) >= 2
    /\ \E i \in DOMAIN sentences :
          /\ i > 1
          /\ Len(sentences[i]) <= maxLength
          /\ \E k \in DOMAIN sentences[i] : sentences[i][k] = SP
          /\ \E j \in DOMAIN chunks : chunks[j] = sentences[i]

\* C13: when the segmentation yields no sentence for a non-empty normalized
\* text, the text comes back as chunks of length <= maxLength, cut by the
\* word-boundary fallback when it is longer than maxLength.
C13_ZeroSentencesSplitFurther ==
    (cpc = "done" /\ segmented /\ sentences = <<>>) =>
        /\ chunks = splitLongTextAtWordBoundaries(Normalize(text), maxLength)
        /\ \A i \in DOMAIN chunks : Len(chunks[i]) <= maxLength

(***************************************************************************)
(* Properties of splitLongTextAtWordBoundaries, checked under ChunkSpec.   *)
(***************************************************************************)
\* C12: for every text and every maxLength >= 1 the fragments returned by
\* splitLongTextAtWordBoundaries have length <= maxLength each, and their
\* characters, whitespace apart, are those of the text, once and in order.
C12_FragmentsFitAndPreserve ==
    cpc = "split" =>
        /\ \A i \in DOMAIN chunks : Len(chunks[i]) <= maxLength
        /\ WithoutWhitespace(Flatten(chunks)) = WithoutWhitespace(text)

\* C12 witness: a text was cut once at a space, which was dropped, and once
\* inside a word that is longer than maxLength.
C12_Witness ==
    /\ cpc = "split"
    /\ Len(chunks) >= 3
    /\ Len(WithoutWhitespace(text)) = Len(text) - 1
    /\ Len(Flatten(chunks)) = Len(text) - 1
    /\ ~IsWhitespace(text[1]) /\ ~IsWhitespace(text[Len(text)])
    /\ \E i \in DOMAIN chunks : Len(chunks[i]) = maxLength /\ maxLength >= 2

(***************************************************************************)
(* Properties of the textToSpeech handler, checked under HandlerSpec.      *)
(***************************************************************************)
\* The number of synthesis calls of the request so far.
RECURSIVE HandlerCalls(_)
HandlerCalls(c) == IF c >= n THEN 0 ELSE Len(script[c]) + HandlerCalls(c + 1)

\* C14: a request whose text is missing, empty or whitespace-only is answered
\* with 400 'No text provided', nothing chunked and no synthesis call made,
\* whatever the state of the provider client.
C14_BlankTextIsBadRequest ==
    (hpc = "responded" /\ NoTextProvided) =>
        /\ response = BadRequest
        /\ n = 0
        /\ HandlerCalls(0) = 0

\* The chunks of the request whose synthesis failed for good.
HandlerFailed == {c \in Chunks : script[c] # <<>> /\ script[c][Len(script[c])] # "ok"}

\* C15: once a request has passed validation and has chunks to synthesize, it
\* fails only with the failure-threshold error; failed chunks that are within
\* the tolerated ratio are absorbed and the request succeeds, for every number
\* of chunks.
C15_ChunkFailuresAreAbsorbed ==
    (hpc = "responded" /\ n > 0) =>
        /\ ~TooManyFailed(Cardinality(HandlerFailed)) => response.status = 200
        /\ response.status # 200 => response = InternalServerError("Failed to process chunks")

\* C16: in every request, whatever its number of chunks, a chunk whose call
\* failed with a rate-limit error is called again, and it counts as failed only
\* after the first call and 3 retries were all rate-limited.
C16_RateLimitRetriedInEveryJob ==
    hpc = "responded" =>
        \A c \in HandlerFailed :
            isRateLimit(script[c][Len(script[c])]) =>
                Len(script[c]) = batchOptions.maxRetries + 1

\* The chunks whose segment in audioChunks is not empty, and the number of
\* those before chunk c.
Audible == {c \in Chunks : Len(audioChunks[c]) > 0}
AudibleBefore(c) == Cardinality({d \in Audible : d < c})
SegmentLen == Len(Audio(0, 0))

\* C17: the audio of a successful response is made of the non-empty segments of
\* audioChunks and of nothing else, each at the place its index gives it: the
\* segment of chunk c follows those of the audible chunks before c, so that the
\* bytes of i precede the bytes of j whenever i < j.
C17_AudioInIndexOrder ==
    (hpc = "responded" /\ response.status = 200) =>
        LET audio == atob(response.body.audioData)
        IN  /\ Len(audio) = SegmentLen * Cardinality(Audible)
            /\ \A c \in Audible :
                   SubSeq(audio, SegmentLen * AudibleBefore(c) + 1,
                          SegmentLen * (AudibleBefore(c) + 1)) = audioChunks[c]

\* C17 witness: a successful response whose audioChunks has an empty marker
\* between two segments with audio.
C17_Witness ==
    /\ hpc = "responded"
    /\ response.status = 200
    /\ \E i, j, k \in Chunks :
          /\ i < j /\ j < k
          /\ i \in Audible /\ j \notin Audible /\ k \in Audible

\* C18: a successful response tells how many chunks failed: it has a
\* failedCount, the number of chunks whose slot is an empty marker, and its
\* chunksProcessed is the number of chunks that were synthesized.
C18_MetadataCountsFailures ==
    (hpc = "responded" /\ response.status = 200) =>
        /\ "failedCount" \in DOMAIN response.body
        /\ response.body.failedCount = Cardinality(Chunks \ Audible)
        /\ response.body.chunksProcessed = Cardinality(Audible)

(***************************************************************************)
(* More properties of processChunksWithRateLimit, checked under Spec.      *)
(***************************************************************************)
\* C21, the states: a cooldown is waited only when the batch size is at least
\* maxRequestsPerMinute, and only when a batch is left to run.
C21_CooldownOnlyAtQuota ==
    pc = "cooldown" =>
        /\ batchSize >= opts.maxRequestsPerMinute
        /\ batchStart + batchSize < n

\* C21, the steps: when a batch is over and another is left, the next batch is
\* launched in the same step if the batch size is below maxRequestsPerMinute,
\* and otherwise a wait is entered that ends no earlier than 60 s later, with
\* the launch of the next batch; the run never ends from a cooldown.
C21_CooldownStep ==
    /\ (pc = "await" /\ pc' # "await") =>
          IF batchStart + batchSize >= n THEN pc' \in {"returned", "thrown"}
          ELSE /\ batchSize >= opts.maxRequestsPerMinute
               /\ pc' = "cooldown"
               /\ mainWake' = now + MinuteMs
    /\ (pc = "await" /\ batchStart' # batchStart) =>
          /\ batchSize < opts.maxRequestsPerMinute
          /\ batchStart' = batchStart + batchSize
          /\ now' = now
    /\ (pc = "cooldown" /\ pc' = "cooldown") => mainWake' = mainWake
    /\ (pc = "cooldown" /\ pc' # "cooldown") =>
          /\ pc' = "await"
          /\ now >= mainWake
          /\ batchStart' = batchStart + batchSize

\* C21: both parts, in every state and in every step.
C21_CooldownIffQuotaReached ==
    [](C21_CooldownOnlyAtQuota) /\ [][C21_CooldownStep]_vars

\* C21 witness: a run of three chunks, one per batch with a quota of one per
\* minute, is over after two cooldowns, two minutes on the clock.
C21_Witness ==
    /\ pc = "returned"
    /\ n = 3
    /\ batchSize = 1
    /\ opts.maxRequestsPerMinute = 1
    /\ now >= 2 * MinuteMs

(***************************************************************************)
(* More properties of the textToSpeech handler, checked under HandlerSpec. *)
(***************************************************************************)
\* C22: a request whose text is one chunk, synthesized with success, is
\* answered after exactly one synthesis call, and the audio of the response,
\* decoded, is the audio the provider returned for that call.
C22_SingleChunkIsOneCall ==
    (hpc = "responded" /\ n = 1 /\ HandlerFailed = {}) =>
        /\ HandlerCalls(0) = 1
        /\ script[0] = <<"ok">>
        /\ response.status = 200
        /\ atob(response.body.audioData) = Audio(0, 0)

\* C22 witness: a JSON request of one chunk was answered 200 by an instance
\* that had to build its client first.
C22_Witness ==
    /\ hpc = "responded"
    /\ n = 1
    /\ response.status = 200
    /\ requestBody.json
    /\ ttsClient = "client"
    /\ Len(response.body.audioData) > 0

(***************************************************************************)
(* Properties of initializeClient, checked under ClientSpec.               *)
(***************************************************************************)
Given == {i \in Invocations : caller[i].st \in {"settled", "resumed"} /\ ~caller[i].threw}
Refused == {i \in Invocations : caller[i].st \in {"settled", "resumed"} /\ caller[i].threw}

\* C23: however the invocations of one process interleave, at most one client
\* is ever constructed; every invocation that gets a client gets that one; and
\* an initialization that fails leaves ttsClient unset, so that every later
\* call attempts the construction again.
C23_ClientBuiltAtMostOnce ==
    /\ constructed <= 1
    /\ (ttsClient = "client") = (constructed = 1)
    /\ \A i \in Given : caller[i].handle = 1
    /\ Given # {} => ttsClient = "client"
    /\ Refused # {} => ttsClient = "unset" /\ attempts = Cardinality(Refused)
    /\ Refused = {} => attempts = constructed

\* C23 witness: every invocation of the process went on with the same client,
\* the first of them having built it.
C23_Witness ==
    /\ \A i \in Invocations : caller[i].st = "resumed" /\ caller[i].handle = 1
    /\ constructed = 1
    /\ attempts = 1

(***************************************************************************)
(* More properties of the chunker, checked under ChunkSpec.                *)
(***************************************************************************)
\* C24: for an argument that is empty or is no string (null, undefined, a
\* number, an object) extractSentencesWithNLP returns no sentence and
\* intelligentTextChunking no chunk; and no sentence extractSentencesWithNLP
\* returns is empty once trimmed.
C24_NothingForInvalidInput ==
    LET invalid == textType # "string" \/ Len(text) = 0
    IN  /\ cpc = "extracted" =>
              /\ invalid => sentences = <<>>
              /\ \A i \in DOMAIN sentences : Len(Trim(sentences[i])) > 0
        /\ cpc = "done" => (invalid => chunks = <<>>)

\* C24 witness: the sentences of a text of whitespace only were extracted, and
\* every piece the library gave was dropped.
C24_Witness ==
    /\ cpc = "extracted"
    /\ textType = "string"
    /\ Len(text) >= 2
    /\ Trim(text) = <<>>
    /\ sentences = <<>>

(***************************************************************************)
(* Properties of the jobs of processChunksWithRateLimit, checked under     *)
(* Spec.                                                                   *)
(***************************************************************************)
\* The synthesis calls started for chunk c so far.
CallsOf(c) == Len(script[c]) + (IF task[c].st = "inflight" THEN 1 ELSE 0)

\* C25, the states: a chunk has at most maxRetries + 1 synthesis calls, whatever
\* the provider answers; a call that succeeded is the chunk's last, and a chunk
\* recorded as failed has its job over.
C25_CallsBounded ==
    \A c \in Chunks :
        /\ CallsOf(c) <= opts.maxRetries + 1
        /\ \A k \in DOMAIN script[c] :
              script[c][k] = "ok" => k = Len(script[c]) /\ task[c].st = "resolved"
        /\ c \in FailedIndices => task[c].st = "resolved" /\ ~task[c].success

\* C25, the steps: a job that is over stays as it is, with no further call.
C25_TerminalIsAbsorbing ==
    \A c \in Chunks :
        task[c].st = "resolved" =>
            /\ task'[c] = task[c]
            /\ script'[c] = script[c]

\* C25: both parts, in every state and in every step.
C25_AtMostRetriesPlusOneCalls ==
    [](C25_CallsBounded) /\ [][C25_TerminalIsAbsorbing]_vars

\* C25 witness: a run is over in which one chunk used all its 3 calls, the last
\* of them answered, and another chunk failed on its first call.
C25_Witness ==
    /\ Terminal
    /\ opts.maxRetries = 2
    /\ \E c, d \in Chunks :
          /\ script[c] = <<"code8", "code8", "ok">>
          /\ script[d] = <<"internal">>

\* The chunks that were rate-limited at least once and then synthesized.
Recovered ==
    {c \in Chunks : /\ Len(script[c]) > 1
                    /\ script[c][Len(script[c])] = "ok"
                    /\ \A k \in 1 .. (Len(script[c]) - 1) : script[c][k] = "code8"}

\* C26: a chunk that was rate-limited k <= maxRetries times and then
\* synthesized ends as succeeded: once its batch is recorded, its slot holds
\* the audio of the call that succeeded, it is counted in processedCount and is
\* not in failedChunks, and no report lists it among the failed chunks.
C26_RecoveredChunkSucceeds ==
    /\ \A c \in Recovered \cap Recorded :
          /\ Len(script[c]) - 1 <= opts.maxRetries
          /\ results[c] = Audio(c, Len(script[c]) - 1)
          /\ c \notin FailedIndices
          /\ \A i \in DOMAIN reports :
                "failedChunks" \in DOMAIN reports[i] =>
                    \A k \in DOMAIN reports[i].failedChunks :
                        reports[i].failedChunks[k].index # c
    /\ processedCount = Cardinality({c \in Recorded : LastOutcome(c) = "ok"})
    /\ Len(failedChunks) = Cardinality({c \in Recorded : LastOutcome(c) # "ok"})

\* C26 witness: the run returned with a chunk that was rate-limited twice and
\* then synthesized, every chunk counted as processed.
C26_Witness ==
    /\ pc = "returned"
    /\ \E c \in Recovered : Len(script[c]) = 3 /\ results[c] = Audio(c, 2)
    /\ processedCount = n

\* C27: if every synthesis call returns and every timer fires, a run of
\* processChunksWithRateLimit comes to its end, returning or throwing, and at
\* its end every chunk has its job over, synthesized or recorded as failed.
C27_RunTerminates ==
    /\ <>Terminal
    /\ [](Terminal =>
             \A c \in Chunks :
                 /\ task[c].st = "resolved"
                 /\ (task[c].success /\ LastOutcome(c) = "ok") \/ c \in FailedIndices)

\* C27 witness: a run of three batches with two cooldowns and a chunk that was
\* retried twice is over, longer than the clock's range.
C27_Witness ==
    /\ Terminal
    /\ n = 3
    /\ batchSize = 1
    /\ opts.maxRequestsPerMinute = 1
    /\ \E c \in Chunks : Len(script[c]) = 3

\* A synthesis call of chunk c starts in this step: its first, or a retry.
FirstCallStarts(c) ==
    task[c].st # "inflight" /\ task'[c].st = "inflight" /\ task'[c].attempt = 0

RetryStarts(c) ==
    task[c].st # "inflight" /\ task'[c].st = "inflight" /\ task'[c].attempt > 0

\* C28 (state part): while a batch is awaited its slot 0 is never waiting to make
\* its first call, and a job that waits for a retry can go on as soon as its
\* backoff delay is over.
C28_SlotZeroUndelayed ==
    /\ pc = "await" => task[batchStart].st \notin {"none", "stagger"}
    /\ \A c \in Chunks :
           (task[c].st = "backoff" /\ now >= task[c].since + retryDelay(task[c].attempt))
               => ENABLED BackoffFire(c)

\* C28 (step part): the first call of the chunk in slot i of a batch starts no
\* earlier than i * requestDelayMs after the batch was launched, and in the
\* launching step itself for slot 0; a retry starts from the backoff wait, no
\* earlier than the backoff delay after the failed call, and no job goes from
\* its backoff wait to a stagger wait.
C28_StaggerStep ==
    \A c \in Chunks :
        /\ FirstCallStarts(c) =>
               IF c = batchStart'
               THEN task[c].st = "none" /\ now' = now
               ELSE /\ task[c].st = "stagger"
                    /\ c \in Batch(batchStart)
                    /\ now >= task[c].since + (c - batchStart) * requestDelayMs
        /\ RetryStarts(c) =>
               /\ task[c].st = "backoff"
               /\ now >= task[c].since + retryDelay(task[c].attempt)
        /\ task[c].st = "backoff" => task'[c].st \in {"backoff", "inflight"}
        /\ task'[c].st = "stagger" =>
               task[c].st = "stagger" \/ (task[c].st = "none" /\ task'[c].since = now)

\* C28: within a batch slot i makes its first call no earlier than
\* i * requestDelayMs after the launch, slot 0 is not delayed, and a retry waits
\* only its backoff delay.
C28_SlotsStaggeredRetriesNot == [](C28_SlotZeroUndelayed) /\ [][C28_StaggerStep]_vars

\* C28 witness: the chunk in slot 1 of a batch slept its stagger delay, made
\* its first call, was refused and is making its second call.
C28_Witness ==
    \E c \in Chunks :
        /\ pc = "await"
        /\ c = batchStart + 1
        /\ c \in Batch(batchStart)
        /\ task[c].st = "inflight"
        /\ task[c].attempt = 1

\* The sentences i..j joined by one space each.
RECURSIVE JoinRun(_, _)
JoinRun(i, j) ==
    IF i = j THEN sentences[i] ELSE JoinRun(i, j - 1) \o <<SP>> \o sentences[j]

\* The fragments of sentence i that are chunks: its non-empty pieces.
Fragments(i) ==
    SelectSeq(splitLongTextAtWordBoundaries(sentences[i], maxLength),
              LAMBDA chunk : Len(chunk) > 0)

\* The chunks from the k-th on are the sentences from the i-th on, in order:
\* each chunk a run of whole sentences joined by single spaces and closed only
\* before a sentence that would not fit, or the fragments of one sentence that
\* is too long.
RECURSIVE GreedyFrom(_, _)
GreedyFrom(i, k) ==
    IF i > Len(sentences) THEN k > Len(chunks)
    ELSE \/ /\ k <= Len(chunks)
            /\ \E j \in i .. Len(sentences) :
                  /\ chunks[k] = JoinRun(i, j)
                  /\ j < Len(sentences) =>
                         Len(chunks[k]) + 1 + Len(sentences[j + 1]) > maxLength
                  /\ GreedyFrom(j + 1, k + 1)
         \/ /\ Len(sentences[i]) > maxLength
            /\ LET f == Fragments(i)
               IN  /\ k + Len(f) - 1 <= Len(chunks)
                   /\ SubSeq(chunks, k, k + Len(f) - 1) = f
                   /\ GreedyFrom(i + 1, k + Len(f))

\* C29: the grouping is greedy: the chunks are runs of consecutive sentences
\* joined by exactly one space, and a chunk of whole sentences followed by a
\* space and the next sentence is longer than maxLength.
C29_GroupingIsGreedy ==
    (cpc = "done" /\ segmented /\ Len(sentences) > 0) => GreedyFrom(1, 1)

\* C29 witness: three sentences were grouped into two chunks, the first of
\* them two sentences joined by a space.
C29_Witness ==
    /\ cpc = "done"
    /\ segmented
    /\ Len(sentences) = 3
    /\ Len(chunks) = 2
    /\ chunks[1] = JoinRun(1, 2)
    /\ chunks[2] = sentences[3]

\* The chunks from the k-th on are the sentences from the i-th on, in order,
\* with every sentence longer than maxLength given as its fragments alone and
\* the other sentences joined in runs.
RECURSIVE SplitEverywhereFrom(_, _)
SplitEverywhereFrom(i, k) ==
    IF i > Len(sentences) THEN k > Len(chunks)
    ELSE IF Len(sentences[i]) > maxLength
    THEN LET f == Fragments(i)
         IN  /\ k + Len(f) - 1 <= Len(chunks)
             /\ SubSeq(chunks, k, k + Len(f) - 1) = f
             /\ SplitEverywhereFrom(i + 1, k + Len(f))
    ELSE /\ k <= Len(chunks)
         /\ \E j \in i .. Len(sentences) :
               /\ \A h \in i .. j : Len(sentences[h]) <= maxLength
               /\ chunks[k] = JoinRun(i, j)
               /\ SplitEverywhereFrom(j + 1, k + 1)

\* C30: every sentence longer than maxLength, wherever it stands among the
\* sentences, is returned as its word-boundary fragments, in consecutive
\* chunks that hold no text of another sentence.
C30_EveryLongSentenceIsSplit ==
    (cpc = "done" /\ segmented /\ Len(sentences) > 0) => SplitEverywhereFrom(1, 1)

\* The 0-based positions 0..m of the string r that hold a space.
SpacesUpTo(r, m) == {q \in 0 .. m : q < Len(r) /\ r[q + 1] = SP}

\* The chunks from the k-th on are what is cut from the remaining text r: while
\* r is longer than maxLength, a cut at the last space at a position
\* <= maxLength, or at maxLength when there is no such space; then r itself.
RECURSIVE CutsFrom(_, _)
CutsFrom(r, k) ==
    IF Len(r) > maxLength
    THEN /\ k <= Len(chunks)
         /\ \E p \in 0 .. maxLength :
               /\ \/ p \in SpacesUpTo(r, maxLength) /\ \A q \in SpacesUpTo(r, maxLength) : q <= p
                  \/ p = maxLength /\ SpacesUpTo(r, maxLength) = {}
               /\ chunks[k] = Trim(SubSeq(r, 1, p))
               /\ CutsFrom(Trim(SubSeq(r, p + 1, Len(r))), k + 1)
    ELSE SubSeq(chunks, k, Len(chunks)) = (IF Len(r) > 0 THEN <<r>> ELSE <<>>)

\* C31: splitLongTextAtWordBoundaries cuts at the last space at a position
\* <= maxLength of the remaining text, and at maxLength itself only when the
\* remaining text has no space at a position <= maxLength.
C31_CutsAtLastSpace ==
    cpc = "split" => CutsFrom(text, 1)

\* C31 witness: a text with two spaces at positions <= maxLength was cut at
\* the second of them.
C31_Witness ==
    /\ cpc = "split"
    /\ Len(text) > maxLength
    /\ Cardinality(SpacesUpTo(text, maxLength)) = 2
    /\ maxLength \in SpacesUpTo(text, maxLength)
    /\ chunks[1] = SubSeq(text, 1, maxLength)

\* The provider's error is a quota or throttling signal: code 8, or the
\* characters of 'quota' or of 'rate' in a row somewhere in its message.
SpelledAt(s, i, word) ==
    /\ i + Len(word) - 1 <= Len(s)
    /\ \A j \in 1 .. Len(word) : s[i + j - 1] = word[j]
QuotaSignal(error) ==
    \/ error.code = 8
    \/ \E i \in 1 .. Len(error.message) :
          SpelledAt(error.message, i, <<"q", "u", "o", "t", "a">>)
              \/ SpelledAt(error.message, i, <<"r", "a", "t", "e">>)

\* C32 (state part): after a provider error the error synthesizeChunk threw is
\* a RateLimitError marked isRateLimit if the provider's error was a quota
\* signal and a plain Error without the mark otherwise, with the provider's
\* message after a prefix; the job waits for a retry only after a quota signal
\* and while attempts remain, and has failed otherwise.
C32_ErrorKind ==
    providerError # NoError =>
        /\ lastError.name = (IF QuotaSignal(providerError) THEN "RateLimitError" ELSE "Error")
        /\ ("isRateLimit" \in DOMAIN lastError) = QuotaSignal(providerError)
        /\ "isRateLimit" \in DOMAIN lastError => lastError.isRateLimit
        /\ Tail(lastError.message) = providerError.message
        /\ Head(lastError.message) = (IF QuotaSignal(providerError)
                                      THEN "Rate limit exceeded: " ELSE "TTS synthesis failed: ")
        /\ jpc = "backoff" => QuotaSignal(providerError)
        /\ jpc = "call" => QuotaSignal(providerError)

\* C32 (step part): a provider error that is no quota signal ends the job at
\* once, and a quota signal is retried while attempts remain.
C32_RetryStep ==
    (jpc = "call" /\ providerError' # NoError) =>
        jpc' = (IF QuotaSignal(providerError') /\ jobAttempt < jobMaxRetries
                THEN "backoff" ELSE "failed")

\* C32: synthesizeChunk turns a provider error into a rate-limit error exactly
\* when the provider signals quota or throttling, into a plain synthesis
\* failure otherwise, and only rate-limit errors are retried.
C32_QuotaErrorsAreRateLimits == [](C32_ErrorKind) /\ [][C32_RetryStep]_vars

\* C32 witness: a job was retried after a quota signal, and the retry failed
\* with an error without code 8 whose message, 'Quota' capitalised, spells
\* neither word: a plain Error.
C32_Witness ==
    /\ jpc = "failed"
    /\ jobAttempt = 1
    /\ providerError.code # 8
    /\ providerError.message = <<"Q", "u", "o", "t", "a">>
    /\ lastError.name = "Error"

\* C33: the error thrown over the failure threshold states the number of
\* failed chunks and the number of chunks, and quotes the errors of the first
\* failed chunks in the order they were recorded, three at most, with an
\* ellipsis when there are more; nothing is thrown otherwise.
C33_AggregatedErrorQuotesThree ==
    IF pc = "thrown"
    THEN /\ thrown.msg = "Failed to process"
         /\ thrown.count = Len(failedChunks)
         /\ thrown.count = Cardinality(Failed)
         /\ thrown.of = n
         /\ Len(thrown.errors) <= 3
         /\ Len(thrown.errors) = (IF Len(failedChunks) <= 3 THEN Len(failedChunks) ELSE 3)
         /\ \A k \in DOMAIN thrown.errors :
               /\ thrown.errors[k] = failedChunks[k].error
               /\ thrown.errors[k] = LastOutcome(failedChunks[k].index)
         /\ thrown.ellipsis = (Len(failedChunks) > 3)
    ELSE thrown = [msg |-> "none"]

\* C33 witness: four chunks failed, the fourth with another error than the
\* first three, and the error thrown quotes three errors.
C33_Witness ==
    /\ pc = "thrown"
    /\ Len(failedChunks) = 4
    /\ Len(thrown.errors) = 3
    /\ \A k \in 1 .. 3 : failedChunks[4].error # failedChunks[k].error

\* The request is being processed and its chunk list is known.
Chunked == hpc \in {"sequential", "calling", "batch", "assemble"} \/ (hpc = "responded" /\ n > 0)

\* The chunks the handler has called synthesizeChunk for and has its answer.
Called == {c \in Chunks : script[c] # <<>>}

FailedIn(report) == IF "failed" \in DOMAIN report THEN report.failed ELSE 0

\* The last report made after a batch.
LastBatchReport ==
    CHOOSE i \in ReportsSaying("Processed batch") :
        \A j \in ReportsSaying("Processed batch") : j <= i

C36_IterationShortens ==
    (cpc = "splitting" /\ cpc' = "splitting") => Len(remainingText') < Len(remainingText)

\* C36 (state part): the text left is never longer than the argument, the
\* iterations so far are at most as many as the characters taken from it, and
\* the function returns what the loop computed.
C36_LoopBounded ==
    /\ cpc = "splitting" =>
          /\ Len(remainingText) <= Len(text)
          /\ Len(chunks) <= Len(text) - Len(remainingText)
    /\ cpc = "returned" =>
          /\ Len(remainingText) <= maxLength
          /\ chunks = splitLongTextAtWordBoundaries(text, maxLength)

\* C36: for every text and every maxLength >= 1 the call of
\* splitLongTextAtWordBoundaries returns, each iteration of its loop strictly
\* shortening the remaining text.
C36_SplitTerminates ==
    /\ [][C36_IterationShortens]_vars
    /\ [](C36_LoopBounded)
    /\ (cpc = "splitting" ~> cpc = "returned")

\* C36 witness: the function has returned after an iteration that cut at
\* position 0, pushing an empty chunk, and one that found no space.
C36_Witness ==
    /\ cpc = "returned"
    /\ Len(chunks) >= 3
    /\ chunks[1] = <<>>
    /\ Len(chunks[2]) = maxLength
    /\ SpacesUpTo(chunks[2], maxLength) = {}
    /\ text[1] = SP

\* An error reached the handler's try block: initializeClient threw, a call of
\* the sequential loop threw, or processChunksWithRateLimit threw.
ErrorRaised ==
    \/ ttsClient = "unset"
    \/ n > 0 /\ n <= SequentialLimit /\ HandlerFailed # {}
    \/ n > SequentialLimit /\ TooManyFailed(Cardinality(HandlerFailed))

\* C37: every invocation ends with one response, of status 200, 400 or 500:
\* 500 with the error's message when an error was raised, 400 when no error
\* was raised and no text was given, 200 otherwise; no error leaves the
\* handler.
C37_EveryInvocationAnswered ==
    hpc = "responded" =>
        /\ "rejected" \notin DOMAIN response
        /\ response.status \in {200, 400, 500}
        /\ response.status = 500 <=> ErrorRaised
        /\ response.status = 500 =>
               /\ response.body.error = "Internal server error"
               /\ response.body.message \in
                      {"Failed to initialize Google Cloud TTS client", "Rate limit exceeded",
                       "TTS synthesis failed", "Failed to process chunks"}
        /\ response.status = 400 <=> (~ErrorRaised /\ NoTextProvided)
        /\ response.status = 200 <=> (~ErrorRaised /\ ~NoTextProvided)


\* ---------------------------------------------------------------------------
\* The front end's API route: POST of the Next.js route handler, which
\* authenticates the caller and forwards the text to the Azure Function.
\* ---------------------------------------------------------------------------
allowedEmail == "kc681269@gmail.com"
otherEmail == "someone@example.com"
azureFunctionUrl == "https://function.example/api/textToSpeech"
azureFunctionKey == "function-key"

\* What getServerSession can give: null, a session without a user, a user
\* without an email, a user with an email; or the call rejects.
SessionRejects == [rejects |-> "Error"]
Sessions ==
    {Null, SessionRejects, [expires |-> "later"], [user |-> [name |-> "K"]]}
        \cup {[user |-> [email |-> e]] : e \in {allowedEmail, otherEmail}}

\* The bodies a client can send: one that is no JSON, an object without
\* text, and objects with an empty, a blank and a real text.
RouteTexts == {<<>>, <<SP>>, <<"a">>}
RouteRequests ==
    {[json |-> "invalid"], [json |-> "object", body |-> [voice |-> "en"]]}
        \cup {[json |-> "object", body |-> [text |-> t]] : t \in RouteTexts}

Environments == [url : {"", azureFunctionUrl}, key : {"", azureFunctionKey}]

\* What the fetch can settle with.  The function's answers are those of the
\* textToSpeech handler and of its host; none depends on the request's
\* headers, which the handler never reads.
FetchRejects == [rejects |-> "TypeError"]
FunctionAnswers ==
    { [status |-> 200, json |-> "object",
       data |-> [success |-> TRUE, audioData |-> "UklGRg==", format |-> "wav",
                 chunksProcessed |-> 1]],
      [status |-> 200, json |-> "object",
       data |-> [success |-> FALSE, message |-> "quota exceeded"]],
      [status |-> 200, json |-> "object", data |-> [success |-> FALSE]],
      [status |-> 200, json |-> "invalid"],
      [status |-> 400, json |-> "object", data |-> [error |-> "No text provided"]],
      [status |-> 401, json |-> "invalid"],
      [status |-> 500, json |-> "object",
       data |-> [error |-> "Internal server error", message |-> "quota exceeded"]] }

\* session.user?.email === allowedEmail
HasEmail(s) == "user" \in DOMAIN s /\ "email" \in DOMAIN s.user
AuthorizedWhateverEmail(s) == HasEmail(s)
Authorized(s) == HasEmail(s) /\ s.user.email = allowedEmail

\* NextResponse.json(body, {status}): the status, and the body's JSON text as
\* the sequence of its names and values.
Unauthorized == [status |-> 401, body |-> <<"error", "Unauthorized - Please sign in">>]
Forbidden == [status |-> 403, body |-> <<"error", "Forbidden - Access denied">>]
RouteNoText == [status |-> 400, body |-> <<"error", "No text provided">>]
ConfigurationError == [status |-> 500, body |-> <<"error", "Server configuration error">>]
RouteInternalError == [status |-> 500, body |-> <<"error", "Internal server error">>]
RequestFailed(status) ==
    [status |-> status,
     body |-> <<"error", "Azure Function request failed: ", ToString(status)>>]
GenerationFailed(data) ==
    [status |-> 500,
     body |-> <<"error", IF "message" \in DOMAIN data /\ data.message # "" THEN data.message
                         ELSE "Failed to generate speech">>]
Generated(data) ==
    [status |-> 200,
     body |-> <<"success", "true", "audioData", data.audioData,
                "format", data.format,
                "chunksProcessed", ToString(data.chunksProcessed)>>]

\* const session = await getServerSession(authOptions), and the two checks.
Authenticate ==
    /\ rpc = "request"
    /\ IF session = SessionRejects
         THEN rpc' = "responded" /\ routeResponse' = RouteInternalError
         ELSE IF session = Null
         THEN rpc' = "responded" /\ routeResponse' = Unauthorized
         ELSE IF ~Authorized(session)
         THEN rpc' = "responded" /\ routeResponse' = Forbidden
         ELSE rpc' = "body" /\ UNCHANGED routeResponse
    /\ UNCHANGED <<session, routeRequest, env, bodyRead, fetched>>
    /\ UNCHANGED <<schedVars, chunkVars, handlerVars, clientVars, synthVars>>

\* const body = await request.json(), the validation of the text, the check
\* of the configuration and the call of fetch.
ReadBody ==
    /\ rpc = "body"
    /\ bodyRead' = TRUE
    /\ IF routeRequest.json = "invalid"
         THEN /\ rpc' = "responded"
              /\ routeResponse' = RouteInternalError
              /\ UNCHANGED fetched
         ELSE IF \/ "text" \notin DOMAIN routeRequest.body
                 \/ routeRequest.body.text = <<>>
                 \/ Len(Trim(routeRequest.body.text)) = 0
         THEN /\ rpc' = "responded"
              /\ routeResponse' = RouteNoText
              /\ UNCHANGED fetched
         ELSE IF env.url = "" \/ env.key = ""
         THEN /\ rpc' = "responded"
              /\ routeResponse' = ConfigurationError
              /\ UNCHANGED fetched
         ELSE /\ rpc' = "fetching"
              /\ fetched' = Append(fetched,
                     [url |-> env.url, method |-> "POST",
                      headers |-> [contentType |-> "application/json",
                                   xFunctionsKey |-> env.key],
                      body |-> [text |-> routeRequest.body.text]])
              /\ UNCHANGED routeResponse
    /\ UNCHANGED <<session, routeRequest, env>>
    /\ UNCHANGED <<schedVars, chunkVars, handlerVars, clientVars, synthVars>>

\* The fetch settles, and the route answers from what it got.
FetchSettles(answer) ==
    /\ rpc = "fetching"
    /\ rpc' = "responded"
    /\ routeResponse' =
         IF answer = FetchRejects THEN RouteInternalError
         ELSE IF ~(answer.status \in 200 .. 299) THEN RequestFailed(answer.status)
         ELSE IF answer.json = "invalid" THEN RouteInternalError
         ELSE IF ~answer.data.success THEN GenerationFailed(answer.data)
         ELSE Generated(answer.data)
    /\ UNCHANGED <<session, routeRequest, env, bodyRead, fetched>>
    /\ UNCHANGED <<schedVars, chunkVars, handlerVars, clientVars, synthVars>>

RouteInit ==
    /\ rpc = "request"
    /\ session \in Sessions
    /\ routeRequest \in RouteRequests
    /\ env \in Environments
    /\ bodyRead = FALSE
    /\ fetched = <<>>
    /\ routeResponse = NoRouteResponse
    /\ SchedIdle
    /\ ChunkIdle
    /\ HandlerIdle
    /\ ClientIdle
    /\ SynthIdle

RouteNext ==
    \/ Authenticate
    \/ ReadBody
    \/ \E answer \in FunctionAnswers \cup {FetchRejects} : FetchSettles(answer)

RouteSpec == RouteInit /\ [][RouteNext]_vars

\* C38: the route forwards to the Azure Function, with the server-side
\* function key in the x-functions-key header, only when a session exists
\* and its email is the allowed one; with no session it answers 401 and
\* with another email (or none) 403, in both cases without having read the
\* body and without any call of the Azure Function; and no response sent to
\* the client carries the function key.
C38_Forwarded ==
    \A i \in 1 .. Len(fetched) :
        /\ session # Null
        /\ HasEmail(session)
        /\ session.user.email = allowedEmail
        /\ fetched[i].headers.xFunctionsKey = env.key
        /\ env.key = azureFunctionKey
C38_Refused ==
    /\ session = Null =>
         /\ ~bodyRead
         /\ fetched = <<>>
         /\ rpc = "responded" => routeResponse = Unauthorized
    /\ (session \notin {Null, SessionRejects} /\ ~Authorized(session)) =>
         /\ ~bodyRead
         /\ fetched = <<>>
         /\ rpc = "responded" => routeResponse = Forbidden
C38_KeyStaysOnServer ==
    \A i \in 1 .. Len(routeResponse.body) : routeResponse.body[i] # azureFunctionKey
C38_OnlyTheAllowedEmailIsForwarded ==
    C38_Forwarded /\ C38_Refused /\ C38_KeyStaysOnServer


C38_Witness ==
    /\ rpc = "responded"
    /\ Len(fetched) = 1
    /\ fetched[1].headers.xFunctionsKey = azureFunctionKey
    /\ routeResponse.status = 200

=============================================================================
